---- MODULE Spec2Model ----
(***************************************************************************)
(* The model cache and the three analytics tasks of SmartCachingMLEngine   *)
(* (src/backend/smart_ml_engine.py).                                       *)
(*                                                                         *)
(* The cache is the directory model_cache/: one pickle file per            *)
(* (signature, task kind).  A file is written by open(.., 'wb') followed   *)
(* by the writes of pickle.dump, and read by os.path.exists, open/         *)
(* pickle.load and, when the load fails, os.remove.  Each of these is one  *)
(* step of a caller, so that callers sharing the directory interleave at   *)
(* the file operations.  File semantics are POSIX: 'wb' truncates in       *)
(* place, every open file has its own offset, and a file removed while a   *)
(* writer holds it stays writable but is no longer reachable by its name.  *)
(*                                                                         *)
(* FlexibleCSVMapper (src/backend/csv_mapper.py) and _get_data_signature   *)
(* are looked at one call at a time, with the cache at rest.  A string is  *)
(* the sequence of its tokens: punctuation, the quote, the comma and the   *)
(* line feed are tokens of their own, a word is one token.  A DataFrame is *)
(* its column labels, its columns and its number of rows.                  *)
(*                                                                         *)
(* The numbers of the Forecaster and of the Segmenter are looked at in     *)
(* the same way (SpecForecast, SpecSeg): what the lookup returned is an    *)
(* input, the daily sums and the predictions are exact fractions, and the  *)
(* percentages of the Segmenter are rounded as float64 rounds, to a        *)
(* mantissa of PercentBits bits.  The handler of /analyze                  *)
(* (src/backend/main.py) is process_csv followed by the validation of its  *)
(* report and the calls of the three tasks (SpecRequest).                  *)
(***************************************************************************)
EXTENDS Integers, Sequences, FiniteSets, TLC

\* ------------------------------------------------------------ bounds
NThreads == 2          \* callers sharing model_cache/
NChunks == 2           \* writes one pickle.dump needs to put a file on disk
MaxDays == 8           \* largest number of distinct days of a dataset
MaxOps == 2            \* cache calls racing callers start in one behaviour
MaxRuns == 1           \* task runs started in one behaviour with failures
MaxHeaders == 2        \* longest header list map_headers is called on
MaxText == 7           \* longest text fix_malformed_csv is called on
MaxRows == 1           \* most data rows of an upload
MaxSigRows == 3        \* most rows of a dataframe a signature is taken of
MantissaBits == 3      \* bits of the mantissa of a float64 of the model
MaxPeriods == 2        \* the largest periods argument of a forecast
MaxCustomers == 6      \* most identities of a dataset the Segmenter is run on
PercentBits == 8       \* bits of the mantissa of a float64 of the Segmenter

\* ------------------------------------------------- program constants
MinForecastDays == 7   \* len(daily_data) < 7
Lookback == 3          \* range(3, len(daily_data))
MinFeatureRows == 5    \* len(features) < 5
MinAnomalyDays == 5    \* len(daily_stats) < 5
MinCustomers == 4      \* len(customer_stats) < 4
ForecastWindow == 7    \* daily_data['Total Amount'].tail(7)

Threads == 1..NThreads
MainThread == 1
Kinds == {"revenue", "anomaly", "customer"}

\* ---------------------------------------------------------- datasets
\* A dataset is kept by what the engine reads of it: the aggregates the
\* signature hashes (agg stands for row count, date range, revenue sum and
\* product list together; customers is the distinct-email count), the number
\* of distinct days.
DayCounts == (MinAnomalyDays - 1)..MaxDays
CustomerCounts == (MinCustomers - 1)..MinCustomers
\* Every day count is tried with enough customers; the datasets with too few
\* customers are tried with the largest day count.
Datasets ==
    {d \in [agg : {1}, customers : CustomerCounts, days : DayCounts] :
        d.customers >= MinCustomers \/ d.days = MaxDays}
NoData == [agg |-> 0, customers |-> 0, days |-> 0]

\* _get_data_signature: the hash of the aggregates; the number of distinct
\* days is not part of it.
DataSignature(d) == <<d.agg, d.customers>>
Sigs == {DataSignature(d) : d \in Datasets}
Keys == Sigs \X Kinds
NoKey == <<<<0, 0>>, "none">>

\* hashlib.md5(signature_str.encode()).hexdigest(): one digest for each
\* signature string (md5 is taken to have no collisions)
hexdigest(sig) == <<"md5", ToString(sig[1]), ToString(sig[2])>>
\* (a changed cache_file: the model type is not part of the name)
cache_file_without_type(k) == <<"model_cache/">> \o hexdigest(k[1]) \o <<".pkl">>
\* cache_file = f"model_cache/{model_type}_{cache_key}.pkl", for the key
\* k = <<cache_key, model_type>>
cache_file(k) == <<"model_cache/", k[2], "_">> \o hexdigest(k[1]) \o <<".pkl">>
CacheFiles == {cache_file(k) : k \in Keys}

\* ----------------------------------------------------- cache entries
\* (model, scaler, metadata) as returned by _get_cached_model; (None, None,
\* None) is NoEntry.
NoEntry == [model |-> 0, scaler |-> 0, metadata |-> 0]
KindNo(kind) == CASE kind = "revenue" -> 1 [] kind = "anomaly" -> 2 [] OTHER -> 3

\* The estimator a run fits: a deterministic function (random_state=42) of
\* the rows it is fitted on.
FitModel(kind, d) == 100 * KindNo(kind) + d.days
FitScaler(kind, d) == 1000 + FitModel(kind, d)
\* The metadata dict each task passes to _cache_model.
TrainMetadata(kind, d) ==
    CASE kind = "revenue" -> d.days - Lookback
      [] kind = "anomaly" -> d.days
      [] OTHER -> d.customers
TrainedEntry(kind, d) ==
    [model |-> FitModel(kind, d), scaler |-> FitScaler(kind, d),
     metadata |-> TrainMetadata(kind, d)]

\* ------------------------------------------------------------- files
Chunk(e, i) == [e |-> e, i |-> i]
Hole == Chunk(NoEntry, 0)
\* pickle.dump(cache_data, f): the bytes of one entry, in write order.
Pickle(e) == [i \in 1..NChunks |-> Chunk(e, i)]
NoFile == [exists |-> FALSE, data |-> <<>>]
File(data) == [exists |-> TRUE, data |-> data]
\* pickle.load succeeds on exactly the complete dump of one entry.
CanLoad(data) ==
    /\ Len(data) = NChunks
    /\ \A i \in 1..NChunks : data[i] = Chunk(data[1].e, i)
    /\ data[1].e # NoEntry
Unpickle(data) == data[1].e
\* f.write at offset off of a file holding data (a gap reads as zeros).
WriteAt(data, off, c) ==
    [i \in 1..(IF off > Len(data) THEN off ELSE Len(data)) |->
        IF i = off THEN c ELSE IF i <= Len(data) THEN data[i] ELSE Hole]

\* fs: the files of model_cache/ by name; th: the callers; ops: calls started;
\* call: the call of FlexibleCSVMapper or of _get_data_signature in progress.
\* History kept for the properties: stored[k] is the entry of the last
\* _cache_model call for k that wrote its whole dump, dropped the keys whose
\* unloadable file a lookup of Threads has removed.
VARIABLES fs, th, stored, dropped, ops, call
vars == <<fs, th, stored, dropped, ops, call>>
engine == <<fs, th, stored, dropped, ops>>
NoCall == [fn |-> "none", pc |-> "none"]

\* ----------------------------------------------------------- callers
\* One caller of the engine: the operation it is in (op), its position (pc),
\* the locals of _get_cached_model / _cache_model (key, val, off, live, ret,
\* raised) and of the task run (data and the returned pair).
Idle ==
    [op |-> "idle", pc |-> "idle", key |-> NoKey, val |-> NoEntry, off |-> 0,
     live |-> FALSE, ret |-> NoEntry, raised |-> FALSE,
     corrupt |-> FALSE, torn |-> FALSE, data |-> NoData, method |-> "none",
     cache_hit |-> "none", reason |-> "none", source |-> "none",
     predictor |-> 0, trained |-> FALSE]

\* The datasets a task fits a model on, and the entries it can leave under a key.
Trains(kind, d) ==
    CASE kind = "revenue" ->
            d.days >= MinForecastDays /\ d.days - Lookback >= MinFeatureRows
      [] kind = "anomaly" -> d.days >= MinAnomalyDays
      [] OTHER -> d.customers >= MinCustomers
KeyEntries(k) ==
    {TrainedEntry(k[2], d) : d \in {x \in Datasets :
                                     DataSignature(x) = k[1] /\ Trains(k[2], x)}}

\* What model_cache/ can hold when the engine is constructed (os.makedirs
\* with exist_ok=True keeps the files of earlier processes): nothing, a file
\* cut short by a process that died while writing, or a complete file.
StartFiles(k) ==
    {NoFile, File(<<>>)} \cup {File(Pickle(e)) : e \in KeyEntries(k)}
         \cup {File(<<Chunk(e, 1)>>) : e \in KeyEntries(k)}

Init ==
    /\ \E k \in Keys : \E f \in StartFiles(k) :
          fs = [x \in CacheFiles |-> IF x = cache_file(k) THEN f ELSE NoFile]
    /\ th = [t \in Threads |-> Idle]
    /\ stored = [k \in Keys |-> NoEntry]
    /\ dropped = {}
    /\ ops = 0
    /\ call = NoCall

\* A caller starts its next call when the last one has returned; limit,
\* when not 0, is the number of calls started in all.
CanStart(t, limit) ==
    /\ th[t].pc \in {"idle", "done"}
    /\ IF limit = 0 THEN ops' = ops ELSE ops < limit /\ ops' = ops + 1

\* a call of _get_cached_model(cache_key, model_type)
StartLookup(t, k, limit) ==
    /\ CanStart(t, limit)
    /\ th' = [th EXCEPT ![t] = [Idle EXCEPT !.op = "lookup", !.pc = "exists", !.key = k]]
    /\ UNCHANGED <<call, fs, stored, dropped>>

\* a call of _cache_model(cache_key, model_type, model, scaler, metadata)
StartStore(t, k, e, limit) ==
    /\ CanStart(t, limit)
    /\ th' = [th EXCEPT ![t] = [Idle EXCEPT !.op = "store", !.pc = "open", !.key = k, !.val = e]]
    /\ UNCHANGED <<call, fs, stored, dropped>>

\* a call of quick_revenue_forecast / quick_anomaly_detection /
\* quick_customer_segmentation on dataset d
StartRun(t, kind, d, limit) ==
    /\ CanStart(t, limit)
    /\ th' = [th EXCEPT ![t] = [Idle EXCEPT !.op = kind, !.pc = "call", !.data = d]]
    /\ UNCHANGED <<call, fs, stored, dropped>>

\* ------------------------------------------------- _simple_forecast etc.
SimpleForecast(d) == [source |-> "simple", predictor |-> 0]
ForecastsFromModel(d, model, scaler) == [source |-> "model", predictor |-> model]
\* _generate_forecasts_from_cached_model ignores model and scaler.
ForecastsFromCachedModel(d, model, scaler) == SimpleForecast(d)

Returned(r, method, hit, reason, res) ==
    [r EXCEPT !.pc = "done", !.method = method, !.cache_hit = hit,
              !.reason = reason, !.source = res.source, !.predictor = res.predictor]
NoResults == [source |-> "none", predictor |-> 0]
ModelResults(model) == [source |-> "model", predictor |-> model]

\* (a changed ExceptResult: the error leaves the task)
ExceptPropagates(r, src) == [r EXCEPT !.pc = "done", !.raised = TRUE]

\* The except branch of each task: the failure is returned as metadata.
ExceptResult(r, src) ==
    IF r.op = "revenue"
    THEN Returned(r, "fallback", "none", "none", [source |-> src, predictor |-> 0])
    ELSE Returned(r, "error", "none", "none", NoResults)

\* ------------------------------------------------- _get_cached_model
\* (a changed LookupResult: model and scaler returned in the wrong order)
LookupResultSwapped(e) == [model |-> e.scaler, scaler |-> e.model, metadata |-> e.metadata]

\* return cached_data['model'], cached_data['scaler'], cached_data['metadata']
LookupResult(e) == [model |-> e.model, scaler |-> e.scaler, metadata |-> e.metadata]

LookupReturns(r, e) ==
    [r EXCEPT !.ret = e, !.pc = IF r.op = "lookup" THEN "done" ELSE "body"]
\* os.remove raised inside the except branch: the error leaves
\* _get_cached_model and, in a task, lands in the task's except branch.
LookupRaises(r) ==
    IF r.op = "lookup"
    THEN [r EXCEPT !.raised = TRUE, !.pc = "done"]
    ELSE ExceptResult([r EXCEPT !.raised = TRUE], "simple")

\* if os.path.exists(cache_file):
Exists(t) ==
    LET r == th[t] IN
    /\ r.pc = "exists"
    /\ th' = [th EXCEPT ![t] = IF fs[cache_file(r.key)].exists
                               THEN [r EXCEPT !.pc = "load"]
                               ELSE LookupReturns(r, NoEntry)]
    /\ UNCHANGED <<call, fs, stored, dropped, ops>>

Writing(u, k) == cache_file(th[u].key) = cache_file(k) /\ th[u].live

\* with open(cache_file, 'rb') as f: cached_data = pickle.load(f)
Load(t) ==
    LET r == th[t]
        f == fs[cache_file(r.key)] IN
    /\ r.pc = "load"
    /\ th' = [th EXCEPT ![t] =
                IF f.exists /\ CanLoad(f.data)
                THEN LookupReturns(r, LookupResult(Unpickle(f.data)))
                ELSE [r EXCEPT !.pc = "remove", !.corrupt = f.exists,
                               !.torn = f.exists /\ \E u \in Threads : Writing(u, r.key)]]
    /\ UNCHANGED <<call, fs, stored, dropped, ops>>

\* (a changed Remove: the except branch leaves the file in place)
RemoveKeepsFile(t) ==
    LET r == th[t] IN
    /\ r.pc = "remove"
    /\ th' = [th EXCEPT ![t] = LookupReturns(r, NoEntry)]
    /\ dropped' = IF r.corrupt THEN dropped \cup {r.key} ELSE dropped
    /\ UNCHANGED <<call, fs, stored, ops>>

\* except: os.remove(cache_file)
Remove(t) ==
    LET r == th[t] IN
    /\ r.pc = "remove"
    /\ IF fs[cache_file(r.key)].exists
       THEN /\ fs' = [fs EXCEPT ![cache_file(r.key)] = NoFile]
            /\ th' = [u \in Threads |->
                        IF u = t THEN LookupReturns(r, NoEntry)
                        ELSE IF Writing(u, r.key) THEN [th[u] EXCEPT !.live = FALSE]
                        ELSE th[u]]
            /\ dropped' = IF r.corrupt THEN dropped \cup {r.key} ELSE dropped
       ELSE /\ th' = [th EXCEPT ![t] = LookupRaises(r)]
            /\ fs' = fs
            /\ dropped' = dropped
    /\ UNCHANGED <<call, stored, ops>>

\* The os.remove of a lookup that a process outside Threads runs on the same
\* directory: it found the file of k not loadable and removes it.
ForeignRemove(k) ==
    /\ fs[cache_file(k)].exists /\ ~CanLoad(fs[cache_file(k)].data)
    /\ fs' = [fs EXCEPT ![cache_file(k)] = NoFile]
    /\ th' = [u \in Threads |->
                IF Writing(u, k) THEN [th[u] EXCEPT !.live = FALSE] ELSE th[u]]
    /\ UNCHANGED <<call, stored, dropped, ops>>

\* ------------------------------------------------------ _cache_model
StoreReturns(r) ==
    [r EXCEPT !.live = FALSE, !.pc = IF r.op = "store" THEN "done" ELSE "finish"]

\* with open(cache_file, 'wb') as f:
Open(t) ==
    LET r == th[t] IN
    /\ r.pc = "open"
    /\ fs' = [fs EXCEPT ![cache_file(r.key)] = File(<<>>)]
    /\ th' = [th EXCEPT ![t] = [r EXCEPT !.pc = "write", !.live = TRUE, !.off = 1]]
    /\ UNCHANGED <<call, stored, dropped, ops>>

\* pickle.dump(cache_data, f): one write; the last one ends the with block
Write(t) ==
    LET r == th[t]
        w == [r EXCEPT !.off = r.off + 1] IN
    /\ r.pc = "write"
    /\ fs' = IF r.live
             THEN [fs EXCEPT ![cache_file(r.key)] =
                      File(WriteAt(fs[cache_file(r.key)].data, r.off, Pickle(r.val)[r.off]))]
             ELSE fs
    /\ th' = [th EXCEPT ![t] = IF r.off = NChunks THEN StoreReturns(w) ELSE w]
    /\ stored' = IF r.off = NChunks THEN [stored EXCEPT ![r.key] = r.val] ELSE stored
    /\ UNCHANGED <<call, dropped, ops>>

\* except Exception as e: print(f"Caching error: {e}"): open or a write
\* failed; what was written so far stays in the file.
StoreFails(t) ==
    LET r == th[t] IN
    /\ r.pc \in {"open", "write"}
    /\ th' = [th EXCEPT ![t] = StoreReturns(r)]
    /\ UNCHANGED <<call, fs, stored, dropped, ops>>

\* ---------------------------------------------------- the three tasks
\* data_signature = self._get_data_signature(stan_df), then the lookup
Call(t) ==
    LET r == th[t] IN
    /\ r.pc = "call"
    /\ th' = [th EXCEPT ![t] =
                [r EXCEPT !.key = <<DataSignature(r.data), r.op>>, !.pc = "exists"]]
    /\ UNCHANGED <<call, fs, stored, dropped, ops>>

\* (a changed FitAndStore: the fitted model is never handed to _cache_model)
FitWithoutStore(r) ==
    [r EXCEPT !.trained = TRUE, !.val = TrainedEntry(r.op, r.data), !.pc = "finish"]

\* model.fit(...), then self._cache_model(data_signature, kind, model, scaler, {...})
FitAndStore(r) ==
    [r EXCEPT !.trained = TRUE, !.val = TrainedEntry(r.op, r.data), !.pc = "open"]

\* (a changed RevenueBody: the check of len(daily_data) is missing)
RevenueBodyNoDayCheck(r) ==
    IF r.ret.model # 0
    THEN Returned(r, "cached_model", "true", "none",
                  ForecastsFromCachedModel(r.data, r.ret.model, r.ret.scaler))
    ELSE IF r.data.days - Lookback < MinFeatureRows
    THEN Returned(r, "simple_average", "none", "insufficient_features", SimpleForecast(r.data))
    ELSE FitAndStore(r)

\* quick_revenue_forecast from the lookup's return to the call of _cache_model
RevenueBody(r) ==
    IF r.ret.model # 0
    THEN Returned(r, "cached_model", "true", "none",
                  ForecastsFromCachedModel(r.data, r.ret.model, r.ret.scaler))
    ELSE IF r.data.days < MinForecastDays
    THEN Returned(r, "simple_average", "none", "insufficient_data", SimpleForecast(r.data))
    ELSE IF r.data.days - Lookback < MinFeatureRows
    THEN Returned(r, "simple_average", "none", "insufficient_features", SimpleForecast(r.data))
    ELSE FitAndStore(r)

\* (a changed AnomalyBody: the check of len(daily_stats) is missing)
AnomalyBodyNoDayCheck(r) ==
    IF r.ret.model # 0
    THEN Returned(r, "cached_isolation_forest", "true", "none", ModelResults(r.ret.model))
    ELSE FitAndStore(r)

\* quick_anomaly_detection from the lookup's return to the call of _cache_model
AnomalyBody(r) ==
    IF r.data.days < MinAnomalyDays
    THEN Returned(r, "insufficient_data", "none", "none", NoResults)
    ELSE IF r.ret.model # 0
    THEN Returned(r, "cached_isolation_forest", "true", "none", ModelResults(r.ret.model))
    ELSE FitAndStore(r)

\* (a changed CustomerBody: a model is fitted whatever the lookup returned)
CustomerBodyRefits(r) ==
    IF r.data.customers < MinCustomers
    THEN Returned(r, "insufficient_customers", "none", "none", NoResults)
    ELSE FitAndStore(r)

\* quick_customer_segmentation from the lookup's return to the call of _cache_model
CustomerBody(r) ==
    IF r.data.customers < MinCustomers
    THEN Returned(r, "insufficient_customers", "none", "none", NoResults)
    ELSE IF r.ret.model # 0
    THEN Returned(r, "cached_kmeans", "true", "none", ModelResults(r.ret.model))
    ELSE FitAndStore(r)

Body(t) ==
    LET r == th[t] IN
    /\ r.pc = "body"
    /\ th' = [th EXCEPT ![t] =
                CASE r.op = "revenue" -> RevenueBody(r)
                  [] r.op = "anomaly" -> AnomalyBody(r)
                  [] OTHER -> CustomerBody(r)]
    /\ UNCHANGED <<call, fs, stored, dropped, ops>>

\* each task from the return of _cache_model to its own return
FinishResult(r) ==
    CASE r.op = "revenue" ->
            Returned(r, "lightweight_training", "false", "none",
                     ForecastsFromModel(r.data, r.val.model, r.val.scaler))
      [] r.op = "anomaly" ->
            Returned(r, "lightweight_isolation_forest", "false", "none",
                     ModelResults(r.val.model))
      [] OTHER ->
            Returned(r, "lightweight_kmeans", "false", "none", ModelResults(r.val.model))

Finish(t) ==
    LET r == th[t] IN
    /\ r.pc = "finish"
    /\ th' = [th EXCEPT ![t] = FinishResult(r)]
    /\ UNCHANGED <<call, fs, stored, dropped, ops>>

\* except Exception as e: a step of the task raises (a column is missing or
\* of the wrong type, the estimator rejects the values).  fit says whether
\* the failing call is model.fit; for the Forecaster src says whether
\* _simple_forecast still works on the dataset or ends in its own except.
TaskRaises(t, fit, src) ==
    LET r == th[t] IN
    /\ r.pc \in {"call", "body", "finish"}
    /\ fit => (r.pc = "body" /\ r.ret.model = 0 /\ Trains(r.op, r.data))
    /\ th' = [th EXCEPT ![t] = ExceptResult([r EXCEPT !.trained = r.trained \/ fit], src)]
    /\ UNCHANGED <<call, fs, stored, dropped, ops>>

\* ------------------------------------------------------ specifications
CacheStep(t) == Exists(t) \/ Load(t) \/ Remove(t) \/ Open(t) \/ Write(t)
TaskStep(t) == Call(t) \/ Body(t) \/ Finish(t)
StartCacheOp(t, limit) ==
    \/ \E k \in Keys : StartLookup(t, k, limit)
    \/ \E k \in Keys : \E e \in KeyEntries(k) : StartStore(t, k, e, limit)
StartTask(t, limit) ==
    \E kind \in Kinds : \E d \in Datasets : StartRun(t, kind, d, limit)

\* One request pipeline at a time; file operations succeed; datasets are
\* well formed.
Next ==
    \/ StartCacheOp(MainThread, 0) \/ StartTask(MainThread, 0)
    \/ CacheStep(MainThread) \/ TaskStep(MainThread)
Spec == Init /\ [][Next]_vars

\* Callers of the cache racing on model_cache/.
NextConc == \E t \in Threads : StartCacheOp(t, MaxOps) \/ CacheStep(t)
SpecConc == Init /\ [][NextConc]_vars

\* Task runs whose steps can raise and whose writes can fail, next to the
\* lookups of other processes.
NextFaults ==
    \/ StartTask(MainThread, MaxRuns) \/ TaskStep(MainThread) \/ CacheStep(MainThread)
    \/ StoreFails(MainThread)
    \/ \E fit \in BOOLEAN : \E src \in {"simple", "constant"} :
            TaskRaises(MainThread, fit, src)
    \/ \E k \in Keys : ForeignRemove(k)
SpecFaults == Init /\ [][NextFaults]_vars

\* ------------------------------------------------ FlexibleCSVMapper
\* A header is the sequence of its words and punctuation marks, each as it is
\* spelled: "Customer ID" is <<"Customer", " ", "ID">>, "customerid" is
\* <<"customer", "id">>.  No word is the beginning of another word, so two
\* headers are the same string exactly when they are the same sequence.
Punctuation == {" ", "_", "(", ")", "-"}
\* str.lower() on one word
LowerToken(t) ==
    CASE t = "Address" -> "address"
      [] t = "Amount" -> "amount"
      [] t = "Billing" -> "billing"
      [] t = "CUSTOMER" -> "customer"
      [] t = "Category" -> "category"
      [] t = "Created" -> "created"
      [] t = "Customer" -> "customer"
      [] t = "Date" -> "date"
      [] t = "Discount" -> "discount"
      [] t = "Email" -> "email"
      [] t = "Fee" -> "fee"
      [] t = "Full" -> "full"
      [] t = "ID" -> "id"
      [] t = "Item" -> "item"
      [] t = "Method" -> "method"
      [] t = "Name" -> "name"
      [] t = "Net" -> "net"
      [] t = "Order" -> "order"
      [] t = "Payment" -> "payment"
      [] t = "Price" -> "price"
      [] t = "Product" -> "product"
      [] t = "Qty" -> "qty"
      [] t = "Quantity" -> "quantity"
      [] t = "Referral" -> "referral"
      [] t = "Refunded" -> "refunded"
      [] t = "Revenue" -> "revenue"
      [] t = "Source" -> "source"
      [] t = "Stamp" -> "stamp"
      [] t = "Status" -> "status"
      [] t = "Sub" -> "sub"
      [] t = "Tax" -> "tax"
      [] t = "Time" -> "time"
      [] t = "Total" -> "total"
      [] t = "Transaction" -> "transaction"
      [] t = "Type" -> "type"
      [] t = "UTC" -> "utc"
      [] t = "Unit" -> "unit"
      [] OTHER -> t

\* self.field_mappings, in registration order
field_mappings == <<
    [csv_headers |-> <<
        <<"Customer", " ", "ID">>, <<"customer", "_", "id">>, <<"customer", "id">>,
        <<"Customer", "ID">>, <<"customer">>, <<"id">>>>,
     internal_field |-> <<"customer", "_", "id">>, required |-> TRUE, data_type |-> "string"],
    [csv_headers |-> <<
        <<"Order", " ", "ID">>, <<"order", "_", "id">>, <<"order", "id">>,
        <<"Order", "ID">>, <<"order">>, <<"transaction", "_", "id">>,
        <<"Transaction", " ", "ID">>>>,
     internal_field |-> <<"order", "_", "id">>, required |-> TRUE, data_type |-> "string"],
    [csv_headers |-> <<
        <<"Date">>, <<"date">>, <<"created", "_", "date">>, <<"Created", " ", "Date">>,
        <<"order", "_", "date">>, <<"Order", " ", "Date">>, <<"time", "stamp">>>>,
     internal_field |-> <<"date">>, required |-> TRUE, data_type |-> "datetime"],
    [csv_headers |-> <<
        <<"Time">>, <<"time">>, <<"created", "_", "time">>, <<"Created", " ", "Time">>,
        <<"order", "_", "time">>, <<"Order", " ", "Time">>>>,
     internal_field |-> <<"time">>, required |-> FALSE, data_type |-> "time"],
    [csv_headers |-> <<
        <<"Product", " ", "Name">>, <<"product", "_", "name">>, <<"product", "name">>,
        <<"Product", "Name">>, <<"item">>, <<"Item", " ", "Name">>, <<"product">>,
        <<"Product">>>>,
     internal_field |-> <<"product", "_", "name">>, required |-> TRUE, data_type |-> "string"],
    [csv_headers |-> <<
        <<"Product", " ", "Type">>, <<"product", "_", "type">>, <<"category">>,
        <<"Category">>, <<"type">>, <<"Type">>>>,
     internal_field |-> <<"product", "_", "type">>, required |-> FALSE, data_type |-> "str"],
    [csv_headers |-> <<
        <<"Product", " ", "Price">>, <<"product", "_", "price">>, <<"product", "price">>,
        <<"Product", "Price">>, <<"price">>, <<"unit", "_", "price">>,
        <<"Unit", " ", "Price">>>>,
     internal_field |-> <<"product", "_", "price">>, required |-> FALSE, data_type |-> "float"],
    [csv_headers |-> <<
        <<"Quantity">>, <<"quantity">>, <<"qty">>, <<"Qty">>>>,
     internal_field |-> <<"quantity">>, required |-> FALSE, data_type |-> "int"],
    [csv_headers |-> <<
        <<"Sub", "total">>, <<"sub", "total">>, <<"Sub", " ", "Total">>,
        <<"sub", "_", "total">>>>,
     internal_field |-> <<"sub", "total">>, required |-> FALSE, data_type |-> "float"],
    [csv_headers |-> <<
        <<"Discount", " ", "Amount">>, <<"discount", "_", "amount">>,
        <<"discount", "amount">>, <<"Discount", "Amount">>, <<"discount">>, <<"Discount">>>>,
     internal_field |-> <<"discount", "_", "amount">>, required |-> FALSE, data_type |-> "float"],
    [csv_headers |-> <<
        <<"Total", " ", "Amount">>, <<"total", "_", "amount">>, <<"total", "amount">>,
        <<"Total", "Amount">>, <<"total">>, <<"Total">>>>,
     internal_field |-> <<"total", "_", "amount">>, required |-> TRUE, data_type |-> "float"],
    [csv_headers |-> <<
        <<"Tax", " ", "Amount">>, <<"tax", "_", "amount">>, <<"tax", "amount">>,
        <<"Tax", "Amount">>, <<"tax">>, <<"Tax">>>>,
     internal_field |-> <<"tax", "_", "amount">>, required |-> FALSE, data_type |-> "float"],
    [csv_headers |-> <<
        <<"amount">>, <<"Amount">>>>,
     internal_field |-> <<"total", "_", "amount">>, required |-> FALSE, data_type |-> "float"],
    [csv_headers |-> <<
        <<"Customer", " ", "Name">>, <<"customer", "_", "name">>, <<"customer", "name">>,
        <<"Customer", "Name">>, <<"name">>, <<"Name">>, <<"Full", " ", "Name">>,
        <<"full", "_", "name">>, <<"full", "name">>>>,
     internal_field |-> <<"customer", "_", "name">>, required |-> FALSE, data_type |-> "string"],
    [csv_headers |-> <<
        <<"Customer", " ", "Email">>, <<"customer", "_", "email">>, <<"customer", "email">>,
        <<"Customer", "Email">>, <<"email">>, <<"Email">>>>,
     internal_field |-> <<"customer", "_", "email">>, required |-> FALSE, data_type |-> "string"],
    [csv_headers |-> <<
        <<"Payment", " ", "Status">>, <<"payment", "_", "status">>, <<"payment", "status">>,
        <<"Payment", "Status">>, <<"status">>, <<"Status">>>>,
     internal_field |-> <<"payment", "_", "status">>, required |-> FALSE, data_type |-> "string"],
    [csv_headers |-> <<
        <<"Payment", " ", "Method">>, <<"payment", "_", "method">>, <<"payment", "method">>,
        <<"Payment", "Method">>, <<"method">>, <<"Method">>>>,
     internal_field |-> <<"payment", "_", "method">>, required |-> FALSE, data_type |-> "string"],
    [csv_headers |-> <<
        <<"Referral", " ", "Source">>, <<"referral", "_", "source">>,
        <<"referral", "source">>, <<"Referral", "Source">>, <<"source">>, <<"Source">>>>,
     internal_field |-> <<"referral", "_", "source">>, required |-> FALSE, data_type |-> "string"],
    [csv_headers |-> <<
        <<"Amount", " ", "(", "in", " ", "cents", ")">>, <<"amount", "_", "cents">>>>,
     internal_field |-> <<"amount">>, required |-> FALSE, data_type |-> "float"],
    [csv_headers |-> <<
        <<"Net", " ", "Revenue">>, <<"net", "_", "revenue">>, <<"net", "_", "amount">>,
        <<"Net", " ", "Amount">>>>,
     internal_field |-> <<"net", "_", "amount">>, required |-> FALSE, data_type |-> "float"],
    [csv_headers |-> <<
        <<"Amount", " ", "Refunded">>, <<"amount", "_", "refunded">>,
        <<"amount", "refunded">>, <<"Amount", "Refunded">>, <<"refunded">>>>,
     internal_field |-> <<"amount", "_", "refunded">>, required |-> FALSE, data_type |-> "float"],
    [csv_headers |-> <<
        <<"Fee">>, <<"fee">>, <<"Fee", " ", "Amount">>, <<"fee", "_", "amount">>>>,
     internal_field |-> <<"fee">>, required |-> FALSE, data_type |-> "float"],
    [csv_headers |-> <<
        <<"Net">>, <<"net">>, <<"Net", " ", "Amount">>, <<"net", "_", "amount">>>>,
     internal_field |-> <<"net">>, required |-> FALSE, data_type |-> "float"],
    [csv_headers |-> <<
        <<"Created", " ", "(", "UTC", ")">>, <<"created", "_", "utc">>, <<"created">>,
        <<"Created">>, <<"created", "_", "at">>>>,
     internal_field |-> <<"created", "_", "utc">>, required |-> FALSE, data_type |-> "datetime"] >>

\* The headers map_headers is called on.
HeaderPool == {
    <<"amount">>, <<"Amount">>, <<"Net", " ", "Amount">>, <<"net", "_", "amount">>,
    <<"net", " ", "revenue">>, <<"Net">>, <<"Customer", " ", "ID">>,
    <<"customer", "-", "id">>, <<"CUSTOMER", "_", "ID">>, <<"email">>, <<"product">>,
    <<"Full", " ", "Name">>, <<"tax", " ", "amount">>, <<"refunded">>,
    <<"Billing", " ", "Address">>, <<"receiving", " ", "currency">>,
    <<"Amount", " ", "(", "in", " ", "cents", ")">>, <<"Total", " ", "Amount">>,
    <<"total">>, <<"Date">>, <<"Order", " ", "ID">>, <<"Product", " ", "Name">>, <<"type">>,
    <<"Time", " ", "Stamp">>, <<"fee", "_", "amount">>, <<"Customer", " ", "Email">> }

\* A dict: a function on the set of its keys.
EmptyDict == [k \in {} |-> 0]
DictSet(d, key, v) == [k \in DOMAIN d \cup {key} |-> IF k = key THEN v ELSE d[k]]
InSeq(x, s) == \E i \in 1..Len(s) : s[i] = x

\* header.lower()
lower(header) == [i \in 1..Len(header) |-> LowerToken(header[i])]
IsAlnum(t) == t \notin Punctuation
\* re.sub(r'[^a-zA-Z0-9]', '', header.lower())
normalize_header(header) == SelectSeq(lower(header), IsAlnum)

\* the exact (case-insensitive) match first, then the normalized match
find_best_match(csv_header, possible_headers) ==
    \/ \E i \in 1..Len(possible_headers) : lower(csv_header) = lower(possible_headers[i])
    \/ \E i \in 1..Len(possible_headers) :
          normalize_header(possible_headers[i]) = normalize_header(csv_header)

\* (a changed FirstMatch: the loop over field_mappings has no break, so the
\* last matching field wins)
RECURSIVE LastMatch(_, _)
LastMatch(csv_header, i) ==
    IF i > Len(field_mappings) THEN 0
    ELSE LET later == LastMatch(csv_header, i + 1) IN
         IF later # 0 THEN later
         ELSE IF find_best_match(csv_header, field_mappings[i].csv_headers) THEN i ELSE 0

\* for field_mapping in self.field_mappings: if find_best_match(...): ... break
\* from the i-th field on: the index of the first matching field, 0 for none
RECURSIVE FirstMatch(_, _)
FirstMatch(csv_header, i) ==
    IF i > Len(field_mappings) THEN 0
    ELSE IF find_best_match(csv_header, field_mappings[i].csv_headers) THEN i
    ELSE FirstMatch(csv_header, i + 1)

\* for csv_header in csv_headers: ...
RECURSIVE map_headers_loop(_, _, _)
map_headers_loop(csv_headers, mapping, unmapped_headers) ==
    IF csv_headers = <<>>
    THEN [mapping |-> mapping, unmapped_headers |-> unmapped_headers]
    ELSE LET csv_header == Head(csv_headers)
             m == FirstMatch(csv_header, 1) IN
         IF m # 0
         THEN map_headers_loop(Tail(csv_headers),
                               DictSet(mapping, csv_header, field_mappings[m].internal_field),
                               unmapped_headers)
         ELSE map_headers_loop(Tail(csv_headers), mapping,
                               Append(unmapped_headers, csv_header))
map_headers(csv_headers) == map_headers_loop(csv_headers, EmptyDict, <<>>)

\* The engine at rest, while the mapper or the signature is looked at alone.
EngineIdle ==
    /\ fs = [x \in CacheFiles |-> NoFile]
    /\ th = [t \in Threads |-> Idle]
    /\ stored = [k \in Keys |-> NoEntry]
    /\ dropped = {}
    /\ ops = 0

HeaderLists == UNION {[1..n -> HeaderPool] : n \in 1..MaxHeaders}
InitMap ==
    /\ EngineIdle
    /\ \E hs \in HeaderLists :
          call = [fn |-> "map_headers", pc |-> "call", csv_headers |-> hs,
                  mapping |-> EmptyDict, unmapped_headers |-> <<>>]
\* mapping, unmapped_headers = self.map_headers(csv_headers)
MapHeaders ==
    /\ call.fn = "map_headers" /\ call.pc = "call"
    /\ LET res == map_headers(call.csv_headers) IN
          call' = [call EXCEPT !.pc = "done", !.mapping = res.mapping,
                               !.unmapped_headers = res.unmapped_headers]
    /\ UNCHANGED engine
NextMap == MapHeaders
SpecMap == InitMap /\ [][NextMap]_vars


\* -------------------------------------------------- text and CSV lines
\* A text is the sequence of its tokens: a comma, a double quote, a blank or
\* a line feed is a token of its own, and so is every word; the code below
\* never looks inside a word.
Quote == "\""
Whitespace == {" ", "\n", "\t", "\r"}
RECURSIVE lstrip(_)
lstrip(s) == IF s # <<>> /\ Head(s) \in Whitespace THEN lstrip(Tail(s)) ELSE s
RECURSIVE rstrip(_)
rstrip(s) ==
    IF s # <<>> /\ s[Len(s)] \in Whitespace THEN rstrip(SubSeq(s, 1, Len(s) - 1)) ELSE s
\* str.strip()
strip(s) == rstrip(lstrip(s))
\* str.split(sep): the pieces between the separators, empty ones included
RECURSIVE split(_, _)
split(s, sep) ==
    IF \A i \in 1..Len(s) : s[i] # sep THEN <<s>>
    ELSE LET i == CHOOSE i \in 1..Len(s) : s[i] = sep /\ \A j \in 1..(i - 1) : s[j] # sep IN
         <<SubSeq(s, 1, i - 1)>> \o split(SubSeq(s, i + 1, Len(s)), sep)
\* sep.join(parts)
RECURSIVE join(_, _)
join(sep, parts) ==
    IF parts = <<>> THEN <<>>
    ELSE IF Len(parts) = 1 THEN parts[1]
    ELSE parts[1] \o <<sep>> \o join(sep, Tail(parts))

\* the body of the loop of fix_malformed_csv over lines[1:]
fix_line(line, expected_cols) ==
    LET columns == split(line, ",") IN
    IF Len(columns) > expected_cols
    THEN LET fixed_columns == SubSeq(columns, 1, expected_cols - 1)
             remaining == SubSeq(columns, expected_cols, Len(columns))
             joined == strip(join(",", remaining))
             address_field ==
                 IF joined # <<>> /\ ~(Head(joined) = Quote /\ joined[Len(joined)] = Quote)
                 THEN <<Quote>> \o joined \o <<Quote>>
                 ELSE joined IN
         join(",", Append(fixed_columns, address_field))
    ELSE line

\* (a changed fix_malformed_csv: a row with too many fields is dropped)
fix_malformed_csv_dropping(file_content) ==
    LET lines == split(strip(file_content), "\n") IN
    IF Len(lines) < 2 THEN file_content
    ELSE LET expected_cols == Len(split(lines[1], ",")) IN
         join("\n", SelectSeq(lines, LAMBDA l : Len(split(l, ",")) <= expected_cols))

fix_malformed_csv(file_content) ==
    LET lines == split(strip(file_content), "\n") IN
    IF Len(lines) < 2 THEN file_content
    ELSE LET header_line == lines[1]
             expected_cols == Len(split(header_line, ","))
             fixed_lines ==
                 [i \in 1..Len(lines) |->
                     IF i = 1 THEN header_line ELSE fix_line(lines[i], expected_cols)] IN
         join("\n", fixed_lines)

\* The texts fix_malformed_csv is called on: every text of up to MaxText
\* tokens over a word, the comma, the quote, the blank and the line feed.
Chars == {"a", ",", Quote, " ", "\n"}
Texts == UNION {[1..n -> Chars] : n \in 0..MaxText}
InitFix ==
    /\ EngineIdle
    /\ \E s \in Texts :
          call = [fn |-> "fix_malformed_csv", pc |-> "call", file_content |-> s,
                  fixed_content |-> <<>>]
\* fixed_content = self.fix_malformed_csv(file_content)
FixMalformedCsv ==
    /\ call.fn = "fix_malformed_csv" /\ call.pc = "call"
    /\ call' = [call EXCEPT !.pc = "done",
                            !.fixed_content = fix_malformed_csv(call.file_content)]
    /\ UNCHANGED engine
NextFix == FixMalformedCsv
SpecFix == InitFix /\ [][NextFix]_vars


\* ------------------------------------------------------ the DataFrame
\* A cell is a string (its tokens), a float64, a Timestamp, NaN or NaT.
Str(v) == [t |-> "str", v |-> v]
Float(v) == [t |-> "float", v |-> v]
Timestamp(v) == [t |-> "datetime", v |-> v]
NaN == [t |-> "nan", v |-> <<>>]
NaT == [t |-> "nat", v |-> <<>>]
\* The words a value is spelled with in the texts: a date as the upload
\* writes it, and the same day as str() of its Timestamp prints it.
RawDate == "01/17/2025"
IsoDate == "2025-01-17"
NumericTokens == {"25.99", "3"}
IntegerTokens == {"3"}
IsNumeric(v) == Len(v) = 1 /\ v[1] \in NumericTokens

\* A DataFrame: the column labels in order (a label can occur twice after a
\* rename), the values of each column by row, and the number of rows.
DataFrame(columns, data, n) == [columns |-> columns, data |-> data, n |-> n]
NoFrame == DataFrame(<<>>, <<>>, 0)
HasColumn(df, name) == InSeq(name, df.columns)
Positions(df, name) == {i \in 1..Len(df.columns) : df.columns[i] = name}
\* df[name] is a Series when the label is unique, a DataFrame when it is not
IsSeries(df, name) == Cardinality(Positions(df, name)) = 1
Series(df, name) == df.data[CHOOSE i \in Positions(df, name) : TRUE]
\* df[name] = values
SetColumn(df, name, values) ==
    IF HasColumn(df, name)
    THEN [df EXCEPT !.data = [i \in 1..Len(df.data) |->
                                 IF df.columns[i] = name THEN values ELSE df.data[i]]]
    ELSE [df EXCEPT !.columns = Append(df.columns, name), !.data = Append(df.data, values)]

\* series.astype(str) on one cell
AsStr(c) ==
    CASE c.t = "nan" -> <<"nan">>
      [] c.t = "nat" -> <<"NaT">>
      [] OTHER -> c.v
\* pd.to_numeric(series, errors='coerce') on one cell
to_numeric(c) ==
    CASE c.t \in {"float", "int"} -> c
      [] c.t = "str" /\ IsNumeric(c.v) -> Float(c.v)
      [] OTHER -> NaN
\* (a changed to_datetime: only strings are parsed, a Timestamp becomes NaT)
to_datetime_strings_only(c) ==
    IF c.t = "str" /\ c.v = <<RawDate>> THEN Timestamp(<<IsoDate>>) ELSE NaT
\* pd.to_datetime(series, errors='coerce') on one cell
to_datetime(c) ==
    IF c.t = "str" /\ c.v = <<RawDate>> THEN Timestamp(<<IsoDate>>)
    ELSE IF c.t = "datetime" THEN c
    ELSE NaT
isna(c) == c.t \in {"nan", "nat"}

\* The fields of one line as read_csv(quotechar='"') splits it: a quote opens
\* a quoted field only at the start of a field, a comma inside a quoted field
\* is text, and a doubled quote inside a quoted field is one quote.
RECURSIVE csv_fields_from(_, _, _, _)
csv_fields_from(s, state, cur, acc) ==
    IF s = <<>> THEN Append(acc, cur)
    ELSE LET c == Head(s)
             rest == Tail(s) IN
         CASE state = "quoted" ->
                 IF c = Quote THEN csv_fields_from(rest, "closing", cur, acc)
                 ELSE csv_fields_from(rest, "quoted", Append(cur, c), acc)
           [] state = "field" ->
                 IF c = "," THEN csv_fields_from(rest, "start", <<>>, Append(acc, cur))
                 ELSE csv_fields_from(rest, "field", Append(cur, c), acc)
           [] state = "closing" /\ c = Quote ->
                 csv_fields_from(rest, "quoted", Append(cur, c), acc)
           [] state = "start" /\ c = Quote ->
                 csv_fields_from(rest, "quoted", cur, acc)
           [] OTHER ->
                 IF c = "," THEN csv_fields_from(rest, "start", <<>>, Append(acc, cur))
                 ELSE csv_fields_from(rest, "field", Append(cur, c), acc)
csv_fields(line) == csv_fields_from(line, "start", <<>>, <<>>)

\* The dtype read_csv infers for a column: float64 when every value present
\* is a number, strings otherwise; a missing value is NaN.
InferColumn(raw) ==
    LET numbers == \A i \in 1..Len(raw) : raw[i] = <<>> \/ IsNumeric(raw[i]) IN
    [i \in 1..Len(raw) |->
        IF raw[i] = <<>> THEN NaN ELSE IF numbers THEN Float(raw[i]) ELSE Str(raw[i])]

\* pd.read_csv(io.StringIO(fixed_content), quotechar='"', escapechar='\\'):
\* blank lines are skipped, a text without a header line is an error, a row
\* shorter than the header is filled with NaN and a longer one is an error.
IsBlank(line) == line = <<>>
NotBlank(line) == ~IsBlank(line)
read_csv(content) ==
    LET lines == SelectSeq(split(content, "\n"), NotBlank) IN
    IF lines = <<>> THEN [ok |-> FALSE, df |-> NoFrame]
    ELSE LET header == csv_fields(lines[1])
             rows == [i \in 1..(Len(lines) - 1) |-> csv_fields(lines[i + 1])]
             cell(r, j) == IF j <= Len(rows[r]) THEN rows[r][j] ELSE <<>> IN
         IF \E r \in 1..Len(rows) : Len(rows[r]) > Len(header)
         THEN [ok |-> FALSE, df |-> NoFrame]
         ELSE [ok |-> TRUE,
               df |-> DataFrame(header,
                                [j \in 1..Len(header) |->
                                    InferColumn([r \in 1..Len(rows) |-> cell(r, j)])],
                                Len(rows))]

\* df.columns.str.strip().str.replace('"', '')
NotQuote(t) == t # Quote
clean_columns(df) ==
    [df EXCEPT !.columns = [i \in 1..Len(df.columns) |->
                               SelectSeq(strip(df.columns[i]), NotQuote)]]


\* ------------------------------------------------------- process_csv
customer_id == <<"customer", "_", "id">>
order_id == <<"order", "_", "id">>
date == <<"date">>
product_name == <<"product", "_", "name">>
total_amount == <<"total", "_", "amount">>
customer_email == <<"customer", "_", "email">>
old_format_fields ==
    << <<"Total", " ", "Amount">>, <<"Date">>, <<"Product", " ", "Name">>,
       <<"Customer", " ", "ID">>, <<"Order", " ", "ID">> >>
\* compatibility_aliases, in the order of the dict: the canonical name (new)
\* and the display name (old) of a field
compatibility_aliases == <<
    [new |-> total_amount, old |-> <<"Total", " ", "Amount">>],
    [new |-> date, old |-> <<"Date">>],
    [new |-> product_name, old |-> <<"Product", " ", "Name">>],
    [new |-> <<"customer", "_", "name">>, old |-> <<"Customer", " ", "Name">>],
    [new |-> customer_email, old |-> <<"Customer", " ", "Email">>],
    [new |-> order_id, old |-> <<"Order", " ", "ID">>],
    [new |-> customer_id, old |-> <<"Customer", " ", "ID">>],
    [new |-> <<"quantity">>, old |-> <<"Quantity">>],
    [new |-> <<"product", "_", "price">>, old |-> <<"Product", " ", "Price">>],
    [new |-> <<"tax", "_", "amount">>, old |-> <<"Tax", " ", "Amount">>],
    [new |-> <<"payment", "_", "status">>, old |-> <<"Payment", " ", "Status">>],
    [new |-> <<"payment", "_", "method">>, old |-> <<"Payment", " ", "Method">>],
    [new |-> <<"referral", "_", "source">>, old |-> <<"Referral", " ", "Source">>] >>

\* (a changed add_aliases: no column is added)
add_aliases_none(r, k, legacy) == r

\* for a, b in compatibility_aliases.items(): if a in columns and b not in
\* columns: df[b] = df[a].  legacy tells the direction (old to new, or new to
\* old).  Setting one column from df[a] raises ValueError when the label a
\* occurs twice, because df[a] then is a DataFrame of two columns.
RECURSIVE add_aliases(_, _, _)
add_aliases(r, k, legacy) ==
    IF ~r.ok \/ k > Len(compatibility_aliases) THEN r
    ELSE LET a == IF legacy THEN compatibility_aliases[k].old ELSE compatibility_aliases[k].new
             b == IF legacy THEN compatibility_aliases[k].new ELSE compatibility_aliases[k].old IN
         IF HasColumn(r.df, a) /\ ~HasColumn(r.df, b)
         THEN IF IsSeries(r.df, a)
              THEN add_aliases([ok |-> TRUE, df |-> SetColumn(r.df, b, Series(r.df, a))],
                               k + 1, legacy)
              ELSE [ok |-> FALSE, df |-> r.df]
         ELSE add_aliases(r, k + 1, legacy)

\* (a changed rename: the columns keep the headers of the upload)
rename_none(df, mapping) == df
\* df.rename(columns=mapping)
rename(df, mapping) ==
    [df EXCEPT !.columns = [i \in 1..Len(df.columns) |->
                               IF df.columns[i] \in DOMAIN mapping
                               THEN mapping[df.columns[i]] ELSE df.columns[i]]]

Int64(c) == IF c.t = "float" THEN [t |-> "int", v |-> c.v] ELSE c
\* The body of the type conversion loop for one field mapping.  On a label
\* that occurs twice to_numeric and to_datetime raise, and so does
\* astype('Int64') on a number that is not whole; the except clauses keep the
\* column as it is.
convert_field(df, fm) ==
    LET name == fm.internal_field IN
    IF ~HasColumn(df, name) \/ ~IsSeries(df, name) THEN df
    ELSE LET s == Series(df, name)
             numbers == [i \in 1..df.n |-> to_numeric(s[i])] IN
         CASE fm.data_type = "float" -> SetColumn(df, name, numbers)
           [] fm.data_type = "int" ->
                 IF \E i \in 1..df.n :
                        numbers[i].t = "float" /\ numbers[i].v[1] \notin IntegerTokens
                 THEN df
                 ELSE SetColumn(df, name, [i \in 1..df.n |-> Int64(numbers[i])])
           [] fm.data_type = "datetime" ->
                 SetColumn(df, name, [i \in 1..df.n |-> to_datetime(s[i])])
           [] OTHER -> df
RECURSIVE convert_types(_, _)
convert_types(df, i) ==
    IF i > Len(field_mappings) THEN df
    ELSE convert_types(convert_field(df, field_mappings[i]), i + 1)

\* transform_dataframe: rename, convert, add the display names.  (The block
\* that follows in the source, for a 'date' column still of dtype object, is
\* entered only when to_datetime has raised on a single column.)
transform_dataframe(df, mapping) ==
    add_aliases([ok |-> TRUE, df |-> convert_types(rename(df, mapping), 1)], 1, FALSE)

\* (a changed generate_missing_fields: order_id is written whether or not the
\* column exists)
generate_missing_fields_overwriting(df_mapped, mapping, df_original) ==
    SetColumn(df_mapped, order_id,
              [i \in 1..df_mapped.n |-> Str(<<"ORDER", "_", ToString(i - 1)>>)])

generate_missing_fields(df_mapped, mapping, df_original) ==
    LET index(i) == ToString(i - 1)
        with_customer ==
            IF ~HasColumn(df_mapped, customer_id) /\ HasColumn(df_mapped, customer_email)
            THEN SetColumn(df_mapped, customer_id,
                           [i \in 1..df_mapped.n |->
                               Str(AsStr(Series(df_mapped, customer_email)[i]))])
            ELSE df_mapped
        original_date_col ==
            df_original.columns[
                CHOOSE i \in 1..Len(df_original.columns) :
                    /\ df_original.columns[i] \in DOMAIN mapping
                    /\ mapping[df_original.columns[i]] = date
                    /\ \A j \in 1..(i - 1) :
                          ~(df_original.columns[j] \in DOMAIN mapping
                            /\ mapping[df_original.columns[j]] = date)]
        with_order ==
            IF ~HasColumn(with_customer, order_id) /\ HasColumn(with_customer, date)
            THEN IF \E i \in 1..df_mapped.n : isna(Series(with_customer, date)[i])
                 THEN SetColumn(with_customer, order_id,
                                [i \in 1..df_mapped.n |->
                                    Str(AsStr(Series(df_original, original_date_col)[i])
                                        \o <<"_", index(i)>>)])
                 ELSE SetColumn(with_customer, order_id,
                                [i \in 1..df_mapped.n |->
                                    Str(AsStr(Series(with_customer, date)[i])
                                        \o <<"_", index(i)>>)])
            ELSE with_customer IN
    IF ~HasColumn(with_order, order_id)
    THEN SetColumn(with_order, order_id,
                   [i \in 1..df_mapped.n |-> Str(<<"ORDER", "_", index(i)>>)])
    ELSE with_order

\* (a changed check: date is not asked for)
IsRequiredAndMissingButDate(df_final) ==
    [i \in 1..Len(field_mappings) |->
        /\ field_mappings[i].required /\ field_mappings[i].internal_field # date
        /\ ~HasColumn(df_final, field_mappings[i].internal_field)]
IsRequiredAndMissing(df_final) ==
    [i \in 1..Len(field_mappings) |->
        field_mappings[i].required /\ ~HasColumn(df_final, field_mappings[i].internal_field)]
RECURSIVE missing_from(_, _)
missing_from(df_final, i) ==
    IF i > Len(field_mappings) THEN <<>>
    ELSE (IF IsRequiredAndMissing(df_final)[i]
          THEN <<field_mappings[i].internal_field>> ELSE <<>>)
         \o missing_from(df_final, i + 1)
\* (a changed validate_required_fields: the fields of the mapping are
\* checked, not the columns of the final dataframe)
validate_required_fields_mapped(mapping, df_final) ==
    LET mapped == DataFrame([i \in 1..Len(df_final.columns) |->
                                IF df_final.columns[i] \in {mapping[h] : h \in DOMAIN mapping}
                                THEN df_final.columns[i] ELSE <<>>], df_final.data, df_final.n) IN
    missing_from(mapped, 1)
\* validate_required_fields(mapping, df_final) with a dataframe, as
\* process_csv calls it
validate_required_fields(mapping, df_final) ==
    IF \A k \in 1..Len(old_format_fields) : HasColumn(df_final, old_format_fields[k])
    THEN <<>>
    ELSE missing_from(df_final, 1)

\* (a changed detect_csv_type: the test for stan comes first)
detect_csv_type_stan_first(mapping) ==
    LET mapped_fields == {mapping[h] : h \in DOMAIN mapping} IN
    IF product_name \in mapped_fields /\ total_amount \in mapped_fields THEN "stan"
    ELSE IF <<"amount", "_", "refunded">> \in mapped_fields /\ <<"fee">> \in mapped_fields
    THEN "stripe"
    ELSE "unknown"
detect_csv_type(mapping) ==
    LET mapped_fields == {mapping[h] : h \in DOMAIN mapping} IN
    IF <<"amount", "_", "refunded">> \in mapped_fields /\ <<"fee">> \in mapped_fields
    THEN "stripe"
    ELSE IF product_name \in mapped_fields /\ total_amount \in mapped_fields THEN "stan"
    ELSE "unknown"

\* The uploads process_csv is called on: a header row with any of the
\* headers of UploadHeaders, in this order, and up to MaxRows data rows.  A
\* row is valid (every value fits the type of its column), has a date that
\* does not parse, has a number that does not convert, or is valid with one
\* field too many (an address with a comma in it, after the last column).
UploadHeaders == <<
    <<"Customer", " ", "ID">>, <<"Order", " ", "ID">>, <<"Date">>,
    <<"Product", " ", "Name">>, <<"Total", " ", "Amount">>, <<"amount">>, <<"product">>,
    <<"email">>, <<"Quantity">>, <<"Billing", " ", "Address">> >>
ColumnType(h) ==
    LET m == FirstMatch(h, 1) IN
    IF m = 0 THEN "string" ELSE field_mappings[m].data_type
UploadTypes == [i \in 1..Len(UploadHeaders) |-> ColumnType(UploadHeaders[i])]
\* the members of S, a set of numbers, in increasing order
RECURSIVE Sorted(_)
Sorted(S) ==
    IF S = {} THEN <<>>
    ELSE LET m == CHOOSE x \in S : \A y \in S : x <= y IN <<m>> \o Sorted(S \ {m})
RowKinds == {"valid", "bad", "overflow"}
Value(type, kind) ==
    CASE type = "datetime" -> IF kind = "bad" THEN <<"abc">> ELSE <<RawDate>>
      [] type = "float" -> IF kind = "bad" THEN <<"abc">> ELSE <<"25.99">>
      [] type = "int" -> IF kind = "bad" THEN <<"25.99">> ELSE <<"3">>
      [] OTHER -> <<"abc">>
RowLine(cols, kind) ==
    join(",", [j \in 1..Len(cols) |-> Value(UploadTypes[cols[j]], kind)]
              \o (IF kind = "overflow" THEN << <<"abc">> >> ELSE <<>>))
Upload(cols, kinds) ==
    join("\n", <<join(",", [j \in 1..Len(cols) |-> UploadHeaders[cols[j]]])>>
               \o [r \in 1..Len(kinds) |-> RowLine(cols, kinds[r])])
Uploads ==
    {<<>>} \cup
    {Upload(Sorted(S), kinds) :
        S \in (SUBSET (1..Len(UploadHeaders))) \ {{}},
        kinds \in UNION {[1..n -> RowKinds] : n \in 0..MaxRows}}

NoMetadata ==
    [csv_type |-> "none", original_headers |-> <<>>, mapped_headers |-> EmptyDict,
     unmapped_headers |-> <<>>, missing_required_fields |-> <<>>,
     mapping_success |-> FALSE, total_columns |-> 0, mapped_columns |-> 0]
InitCsv ==
    /\ EngineIdle
    /\ \E s \in Uploads :
          call = [fn |-> "process_csv", pc |-> "fix", file_content |-> s,
                  fixed_content |-> <<>>, df |-> NoFrame, df_mapped |-> NoFrame,
                  before |-> NoFrame, mapping |-> EmptyDict, unmapped_headers |-> <<>>,
                  metadata |-> NoMetadata, raised_in |-> "none"]
InProcess(pc) == call.fn = "process_csv" /\ call.pc = pc
\* except Exception as e: raise ValueError(f"Error processing CSV: {str(e)}")
Raise(step) == call' = [call EXCEPT !.pc = "raised", !.raised_in = step]

\* fixed_content = self.fix_malformed_csv(file_content)
ProcessFix ==
    /\ InProcess("fix")
    /\ call' = [call EXCEPT !.pc = "read",
                            !.fixed_content = fix_malformed_csv(call.file_content)]
    /\ UNCHANGED engine
\* df = pd.read_csv(...); the column names are cleaned
ProcessRead ==
    /\ InProcess("read")
    /\ LET r == read_csv(call.fixed_content) IN
          IF r.ok THEN call' = [call EXCEPT !.pc = "detect", !.df = clean_columns(r.df)]
          ELSE Raise("read_csv")
    /\ UNCHANGED engine
\* (a changed test: the old format is never detected)
IsOldFormatNever(df) == FALSE
IsOldFormat(df) == \A k \in 1..Len(old_format_fields) : HasColumn(df, old_format_fields[k])
\* if all(field in df.columns for field in old_format_fields): the copy, the
\* aliases and the metadata of the old format
ProcessOldFormat ==
    /\ InProcess("detect") /\ IsOldFormat(call.df)
    /\ LET r == add_aliases([ok |-> TRUE, df |-> call.df], 1, TRUE) IN
          IF r.ok
          THEN call' = [call EXCEPT
                   !.pc = "done", !.df_mapped = r.df,
                   !.metadata =
                       [csv_type |-> "stan", original_headers |-> call.df.columns,
                        mapped_headers |-> [h \in {call.df.columns[i] :
                                                   i \in 1..Len(call.df.columns)} |-> h],
                        unmapped_headers |-> <<>>, missing_required_fields |-> <<>>,
                        mapping_success |-> TRUE,
                        total_columns |-> Len(call.df.columns),
                        mapped_columns |-> Len(call.df.columns)]]
          ELSE Raise("old_format")
    /\ UNCHANGED engine
\* mapping, unmapped_headers = self.map_headers(df.columns.tolist())
ProcessMap ==
    /\ InProcess("detect") /\ ~IsOldFormat(call.df)
    /\ LET res == map_headers(call.df.columns) IN
          call' = [call EXCEPT !.pc = "transform", !.mapping = res.mapping,
                               !.unmapped_headers = res.unmapped_headers]
    /\ UNCHANGED engine
\* df_mapped = self.transform_dataframe(df, mapping)
ProcessTransform ==
    /\ InProcess("transform")
    /\ LET r == transform_dataframe(call.df, call.mapping) IN
          IF r.ok THEN call' = [call EXCEPT !.pc = "generate", !.df_mapped = r.df,
                                            !.before = r.df]
          ELSE Raise("transform_dataframe")
    /\ UNCHANGED engine
\* df_mapped = self.generate_missing_fields(df_mapped, mapping, df)
ProcessGenerate ==
    /\ InProcess("generate")
    /\ call' = [call EXCEPT !.pc = "validate",
                   !.df_mapped = generate_missing_fields(call.df_mapped, call.mapping, call.df)]
    /\ UNCHANGED engine
\* missing_fields, csv_type, metadata; return df_mapped, metadata
ProcessValidate ==
    /\ InProcess("validate")
    /\ LET missing_fields == validate_required_fields(call.mapping, call.df_mapped) IN
          call' = [call EXCEPT
              !.pc = "done",
              !.metadata =
                  [csv_type |-> detect_csv_type(call.mapping),
                   original_headers |-> call.df.columns,
                   mapped_headers |-> call.mapping,
                   unmapped_headers |-> call.unmapped_headers,
                   missing_required_fields |-> missing_fields,
                   mapping_success |-> Len(missing_fields) = 0,
                   total_columns |-> Len(call.df.columns),
                   mapped_columns |-> Cardinality(DOMAIN call.mapping)]]
    /\ UNCHANGED engine
NextCsv ==
    \/ ProcessFix \/ ProcessRead \/ ProcessOldFormat \/ ProcessMap
    \/ ProcessTransform \/ ProcessGenerate \/ ProcessValidate
SpecCsv == InitCsv /\ [][NextCsv]_vars

\* ------------------------------------------------- _get_data_signature
\* float64 with a mantissa of MantissaBits bits instead of 53: a number is
\* kept exactly when it fits the mantissa and is rounded to the nearest
\* number that does (ties to even) when it does not.
RECURSIVE BitLength(_)
BitLength(x) == IF x = 0 THEN 0 ELSE 1 + BitLength(x \div 2)
Float64(x) ==
    LET ulp == 2 ^ (IF BitLength(x) > MantissaBits THEN BitLength(x) - MantissaBits ELSE 0)
        q == x \div ulp
        r == x % ulp IN
    IF 2 * r > ulp \/ (2 * r = ulp /\ q % 2 = 1) THEN (q + 1) * ulp ELSE q * ulp
\* The rows of the dataframe the engine gets: Date, Total Amount, Product
\* Name and Customer Email.  An amount is small, or so large that adding a
\* small one to it is rounded away.
Days == {17, 18}
Amounts == {1, 2 ^ MantissaBits}
ProductNames == <<"Hoodie", "Mug">>
CustomerEmails == {"alice", "frank"}
SaleRows ==
    [Date : Days, TotalAmount : Amounts,
     ProductName : {ProductNames[i] : i \in 1..Len(ProductNames)},
     CustomerEmail : CustomerEmails]
SaleFrames == UNION {[1..n -> SaleRows] : n \in 0..MaxSigRows}

\* str(Timestamp): a date of fixed width
StrDate(day) == <<"2025", "-", "01", "-", ToString(day)>>
\* df['Date'].min(), df['Date'].max(); nan for no row
DateMin(df) ==
    IF df = <<>> THEN <<"nan">>
    ELSE StrDate(CHOOSE d \in {df[i].Date : i \in 1..Len(df)} :
                     \A i \in 1..Len(df) : d <= df[i].Date)
DateMax(df) ==
    IF df = <<>> THEN <<"nan">>
    ELSE StrDate(CHOOSE d \in {df[i].Date : i \in 1..Len(df)} :
                     \A i \in 1..Len(df) : d >= df[i].Date)
\* df['Total Amount'].sum(): the float64 values added one after the other in
\* the order of the rows
RECURSIVE revenue_sum(_, _, _)
revenue_sum(df, i, acc) ==
    IF i > Len(df) THEN acc
    ELSE revenue_sum(df, i + 1, Float64(acc + df[i].TotalAmount))
\* sorted(df['Product Name'].unique().tolist())
RECURSIVE products_from(_, _)
products_from(df, k) ==
    IF k > Len(ProductNames) THEN <<>>
    ELSE (IF \E i \in 1..Len(df) : df[i].ProductName = ProductNames[k]
          THEN <<ProductNames[k]>> ELSE <<>>) \o products_from(df, k + 1)
\* signature_data, as str() writes it; md5 is taken to have no collision, so
\* the digest stands for the string it is computed from
get_data_signature(df) ==
    [rows |-> Len(df),
     date_range |-> DateMin(df) \o DateMax(df),
     revenue_sum |-> revenue_sum(df, 1, 0),
     products |-> products_from(df, 1),
     customers |-> Cardinality({df[i].CustomerEmail : i \in 1..Len(df)})]

NoSignature == [rows |-> 0 - 1]
\* Two calls: on a dataframe, then on the same dataframe, or on one that
\* differs from it by two rows swapped, by one row replaced or by one row
\* dropped.
InitSig ==
    /\ EngineIdle
    /\ \E df \in SaleFrames :
          call = [fn |-> "_get_data_signature", pc |-> "call", df |-> df,
                  signature |-> NoSignature, other |-> df,
                  other_signature |-> NoSignature]
InSignature(pc) == call.fn = "_get_data_signature" /\ call.pc = pc
GetDataSignature ==
    /\ InSignature("call")
    /\ call' = [call EXCEPT !.pc = "edit", !.signature = get_data_signature(call.df)]
    /\ UNCHANGED engine
SwapRows ==
    /\ InSignature("edit")
    /\ \E i, j \in 1..Len(call.df) :
          /\ i < j
          /\ call' = [call EXCEPT !.pc = "again",
                         !.other = [call.df EXCEPT ![i] = call.df[j], ![j] = call.df[i]]]
    /\ UNCHANGED engine
ReplaceRow ==
    /\ InSignature("edit")
    /\ \E i \in 1..Len(call.df), row \in SaleRows :
          /\ row # call.df[i]
          /\ call' = [call EXCEPT !.pc = "again", !.other = [call.df EXCEPT ![i] = row]]
    /\ UNCHANGED engine
DropRow ==
    /\ InSignature("edit")
    /\ \E i \in 1..Len(call.df) :
          call' = [call EXCEPT !.pc = "again",
                      !.other = SubSeq(call.df, 1, i - 1) \o SubSeq(call.df, i + 1, Len(call.df))]
    /\ UNCHANGED engine
GetDataSignatureAgain ==
    /\ InSignature("edit") \/ InSignature("again")
    /\ call' = [call EXCEPT !.pc = "done",
                            !.other_signature = get_data_signature(call.other)]
    /\ UNCHANGED engine
NextSig == GetDataSignature \/ SwapRows \/ ReplaceRow \/ DropRow \/ GetDataSignatureAgain
SpecSig == InitSig /\ [][NextSig]_vars

\* ----------------------------------------------------- detect_csv_type
\* The mappings detect_csv_type is called on: up to four headers, each
\* mapped to one of the fields the test looks at or to another field.
TypeHeaders == {<<"amount">>, <<"product">>, <<"Fee">>, <<"refunded">>}
TypeFields ==
    {<<"amount", "_", "refunded">>, <<"fee">>, product_name, total_amount, date}
TypeMappings == UNION {[S -> TypeFields] : S \in SUBSET TypeHeaders}
InitType ==
    /\ EngineIdle
    /\ \E m \in TypeMappings :
          call = [fn |-> "detect_csv_type", pc |-> "call", mapping |-> m, csv_type |-> "none"]
\* csv_type = self.detect_csv_type(mapping)
DetectCsvType ==
    /\ call.fn = "detect_csv_type" /\ call.pc = "call"
    /\ call' = [call EXCEPT !.pc = "done", !.csv_type = detect_csv_type(call.mapping)]
    /\ UNCHANGED engine
NextType == DetectCsvType
SpecType == InitType /\ [][NextType]_vars

\* -------------------------------------------------------- analyze_data
\* One request to /analyze: the primary upload goes through process_csv
\* (the steps of NextCsv), the report is validated, the secondary upload is
\* parsed when there is one, calculate_analytics runs the three tasks in
\* its order, and the response is sent.  request tells where the handler is,
\* tasks the tasks calculate_analytics has called, status the HTTP status.
TaskOrder == <<"revenue", "anomaly", "customer">>
InitRequest ==
    /\ EngineIdle
    /\ \E s \in Uploads :
          call = [fn |-> "process_csv", pc |-> "fix", file_content |-> s,
                  fixed_content |-> <<>>, df |-> NoFrame, df_mapped |-> NoFrame,
                  before |-> NoFrame, mapping |-> EmptyDict, unmapped_headers |-> <<>>,
                  metadata |-> NoMetadata, raised_in |-> "none",
                  request |-> "parse", analytics |-> FALSE, tasks |-> <<>>, status |-> 0]
InRequest(at) == call.fn = "process_csv" /\ "request" \in DOMAIN call /\ call.request = at
\* except Exception as e: raise HTTPException(status_code=500, ...)
Reject == call' = [call EXCEPT !.request = "rejected", !.status = 500]
\* parse_csv_flexible has raised
AnalyzeParseRaised ==
    /\ InRequest("parse") /\ call.pc = "raised"
    /\ Reject
    /\ UNCHANGED engine
\* (a changed handler: the report of the primary upload is not looked at)
AnalyzeValidateUnchecked ==
    /\ InRequest("parse") /\ call.pc = "done"
    /\ call' = [call EXCEPT !.request = "stripe"]
    /\ UNCHANGED engine
\* if not stan_metadata["mapping_success"]: raise HTTPException(400, ...);
\* the handler's own except clause catches it and raises the 500
AnalyzeValidate ==
    /\ InRequest("parse") /\ call.pc = "done"
    /\ IF ~call.metadata.mapping_success THEN Reject
       ELSE call' = [call EXCEPT !.request = "stripe"]
    /\ UNCHANGED engine
\* if stripe_file: stripe_df, stripe_metadata = parse_csv_flexible(...)
AnalyzeStripe(outcome) ==
    /\ InRequest("stripe")
    /\ IF outcome = "raised" THEN Reject
       ELSE call' = [call EXCEPT !.request = "analytics", !.analytics = TRUE]
    /\ UNCHANGED engine
\* calculate_analytics calls the next task of the engine
CalculateAnalyticsTask ==
    /\ InRequest("analytics") /\ Len(call.tasks) < Len(TaskOrder)
    /\ call' = [call EXCEPT !.tasks = Append(@, TaskOrder[Len(@) + 1])]
    /\ UNCHANGED engine
\* a statement of calculate_analytics raises
CalculateAnalyticsRaises ==
    /\ InRequest("analytics")
    /\ Reject
    /\ UNCHANGED engine
\* return AnalyticsResponse(**analytics)
AnalyzeRespond ==
    /\ InRequest("analytics") /\ Len(call.tasks) = Len(TaskOrder)
    /\ call' = [call EXCEPT !.request = "responded", !.status = 200]
    /\ UNCHANGED engine
NextRequest ==
    \/ NextCsv
    \/ AnalyzeParseRaised
    \/ AnalyzeValidate
    \/ \E outcome \in {"absent", "parsed", "raised"} : AnalyzeStripe(outcome)
    \/ CalculateAnalyticsTask
    \/ CalculateAnalyticsRaises
    \/ AnalyzeRespond
SpecRequest == InitRequest /\ [][NextRequest]_vars

\* ------------------------------------------- quick_revenue_forecast
\* The numbers of one forecast.  A value is a fraction [n, d] in lowest
\* terms with d > 0, so that the mean of a window and the factors 0.5, 2.5
\* and 1.3 are exact.
RECURSIVE Gcd(_, _)
Gcd(a, b) == IF b = 0 THEN a ELSE Gcd(b, a % b)
Frac(n, d) == LET g == Gcd(IF n < 0 THEN 0 - n ELSE n, d) IN
              IF n = 0 THEN [n |-> 0, d |-> 1] ELSE [n |-> n \div g, d |-> d \div g]
Abs(n) == IF n < 0 THEN 0 - n ELSE n
Lcm(a, b) == (a \div Gcd(a, b)) * b
Plus(x, y) ==
    LET d == Lcm(x.d, y.d) IN Frac(x.n * (d \div x.d) + y.n * (d \div y.d), d)
Times(x, y) ==
    LET g == Gcd(Abs(x.n), y.d)
        h == Gcd(Abs(y.n), x.d) IN
    Frac((x.n \div g) * (y.n \div h), (x.d \div h) * (y.d \div g))
AtMost(x, y) ==
    LET d == Lcm(x.d, y.d) IN x.n * (d \div x.d) <= y.n * (d \div y.d)
Largest(x, y) == IF AtMost(x, y) THEN y ELSE x
Smallest(x, y) == IF AtMost(x, y) THEN x ELSE y
RECURSIVE Sum(_)
Sum(s) == IF s = <<>> THEN Frac(0, 1) ELSE Plus(Head(s), Sum(Tail(s)))
\* np.mean of a series that is not empty
Mean(s) == Times(Sum(s), Frac(1, Len(s)))
\* series.tail(k)
LastOf(s, k) == IF Len(s) <= k THEN s ELSE SubSeq(s, Len(s) - k + 1, Len(s))

\* The daily sums of the dataset, oldest day first: one level up to some day
\* and another level after it.  The numbers of days are those at which the
\* Forecaster changes its branch.
DailyLevels == {1, 100}
ForecastDayCounts == {0, MinForecastDays - 1, MinForecastDays, MaxDays}
DailySeries ==
    {[i \in 1..n |-> Frac(IF i <= j THEN a ELSE b, 1)] :
        n \in ForecastDayCounts, j \in 0..MaxDays, a \in DailyLevels, b \in DailyLevels}
\* what model.predict can return for one row of features
Predictions == {0, 50, 1000}

Point(prediction) == [predicted_revenue |-> prediction]
\* The except branch of _simple_forecast: periods points of 100.0
constant_forecast(periods) == [i \in 1..periods |-> Point(Frac(100, 1))]
\* (a changed _simple_forecast: a dataset without rows gets no points)
simple_forecast_nothing_when_empty(daily, periods, tomorrow, raises) ==
    IF raises THEN constant_forecast(periods)
    ELSE IF daily = <<>> THEN <<>>
    ELSE [i \in 1..periods |->
             Point(Times(Mean(daily),
                         IF (tomorrow + i - 1) % 7 >= 5 THEN Frac(13, 10) ELSE Frac(1, 1)))]
\* _simple_forecast(stan_df, periods): the mean of the daily sums (100.0 when
\* there is no day), times 1.3 on a Saturday or Sunday; tomorrow is the day
\* of the week of pd.Timestamp.now() + 1 day; raises tells whether a
\* statement of the try block raises.
simple_forecast(daily, periods, tomorrow, raises) ==
    IF raises THEN constant_forecast(periods)
    ELSE LET base_revenue == IF Len(daily) = 0 THEN Frac(100, 1) ELSE Mean(daily) IN
         [i \in 1..periods |->
             Point(Times(base_revenue,
                         IF (tomorrow + i - 1) % 7 >= 5 THEN Frac(13, 10) ELSE Frac(1, 1)))]
\* _generate_forecasts_from_cached_model ignores model and scaler
generate_forecasts_from_cached_model(daily, periods, tomorrow, raises) ==
    simple_forecast(daily, periods, tomorrow, raises)
\* prediction = max(prediction, mean * 0.5); prediction = min(prediction, mean * 2.5)
Bounded(prediction, last_values) ==
    Smallest(Largest(prediction, Times(Mean(last_values), Frac(1, 2))),
             Times(Mean(last_values), Frac(5, 2)))

InitForecast ==
    /\ EngineIdle
    /\ \E daily \in DailySeries : \E periods \in 0..MaxPeriods :
       \E tomorrow \in 0..6 : \E cached \in BOOLEAN :
          call = [fn |-> "quick_revenue_forecast", pc |-> "lookup", daily |-> daily,
                  periods |-> periods, tomorrow |-> tomorrow, cached |-> cached,
                  last_values |-> <<>>, forecasts |-> <<>>, method |-> "none",
                  reason |-> "none", cache_hit |-> "none"]
InForecast(pc) == call.fn = "quick_revenue_forecast" /\ call.pc = pc
ForecastReturns(forecasts, method, reason, hit) ==
    call' = [call EXCEPT !.pc = "done", !.forecasts = forecasts, !.method = method,
                         !.reason = reason, !.cache_hit = hit]
\* quick_revenue_forecast from the lookup's return to the fitted model
RevenueForecast(raises) ==
    /\ InForecast("lookup")
    /\ IF call.cached
       THEN ForecastReturns(generate_forecasts_from_cached_model(
                                call.daily, call.periods, call.tomorrow, raises),
                            "cached_model", "none", "true")
       ELSE IF Len(call.daily) < MinForecastDays
       THEN ForecastReturns(simple_forecast(call.daily, call.periods, call.tomorrow, raises),
                            "simple_average", "insufficient_data", "none")
       ELSE IF Len(call.daily) - Lookback < MinFeatureRows
       THEN ForecastReturns(simple_forecast(call.daily, call.periods, call.tomorrow, raises),
                            "simple_average", "insufficient_features", "none")
       ELSE /\ ~raises
            /\ call' = [call EXCEPT !.pc = "predict",
                                    !.last_values = LastOf(call.daily, ForecastWindow)]
    /\ UNCHANGED engine
\* one turn of the loop of _generate_forecasts_from_model
ModelPredict(p) ==
    /\ InForecast("predict") /\ Len(call.forecasts) < call.periods
    /\ LET prediction == Bounded(Frac(p, 1), call.last_values) IN
          call' = [call EXCEPT !.forecasts = Append(@, Point(prediction)),
                               !.last_values = Append(Tail(@), prediction)]
    /\ UNCHANGED engine
\* return forecasts, {"method": "lightweight_training", ..., "cache_hit": False}
ModelReturns ==
    /\ InForecast("predict") /\ Len(call.forecasts) = call.periods
    /\ ForecastReturns(call.forecasts, "lightweight_training", "none", "false")
    /\ UNCHANGED engine
\* except Exception as e: return self._simple_forecast(stan_df, periods),
\* {"method": "fallback", ...}
ForecastRaises(raises) ==
    /\ InForecast("lookup") \/ InForecast("predict")
    /\ ForecastReturns(simple_forecast(call.daily, call.periods, call.tomorrow, raises),
                       "fallback", "none", "none")
    /\ UNCHANGED engine
NextForecast ==
    \/ \E raises \in BOOLEAN : RevenueForecast(raises)
    \/ \E p \in Predictions : ModelPredict(p)
    \/ ModelReturns
    \/ \E raises \in BOOLEAN : ForecastRaises(raises)
SpecForecast == InitForecast /\ [][NextForecast]_vars

\* --------------------------------------- quick_customer_segmentation
\* float64 arithmetic on fractions, with a mantissa of PercentBits bits
\* instead of 53: the result of a division, a product or a sum is rounded to
\* the nearest number of that many significant bits, ties to even.
Scaled(x, e) == IF e >= 0 THEN Frac(x.n, x.d * 2 ^ e) ELSE Frac(x.n * 2 ^ (0 - e), x.d)
RECURSIVE ExponentOf(_, _)
ExponentOf(x, e) ==
    IF ~AtMost(Frac(2 ^ (PercentBits - 1), 1), Scaled(x, e)) THEN ExponentOf(x, e - 1)
    ELSE IF AtMost(Frac(2 ^ PercentBits, 1), Scaled(x, e)) THEN ExponentOf(x, e + 1)
    ELSE e
RoundToFloat(x) ==
    IF x.n = 0 THEN x
    ELSE LET e == ExponentOf(x, 0)
             s == Scaled(x, e)
             q == s.n \div s.d
             r == s.n % s.d
             m == IF 2 * r > s.d \/ (2 * r = s.d /\ q % 2 = 1) THEN q + 1 ELSE q IN
         IF e >= 0 THEN Frac(m * 2 ^ e, 1) ELSE Frac(m, 2 ^ (0 - e))
\* float(len(segment_data) / len(customer_stats) * 100)
percentage_of_customers(count, customers) ==
    RoundToFloat(Times(RoundToFloat(Frac(count, customers)), Frac(100, 1)))
\* sum(...) of a list of floats, from the left
RECURSIVE FloatSum(_, _)
FloatSum(s, acc) ==
    IF s = <<>> THEN acc ELSE FloatSum(Tail(s), RoundToFloat(Plus(acc, Head(s))))

\* customer_stats has one row for each identity, 1..customers; identity i
\* has spent i in all.  segments gives each identity its label.
SegmentOf(segments, segment_id) == {i \in DOMAIN segments : segments[i] = segment_id}
RECURSIVE SumOf(_)
SumOf(S) == IF S = {} THEN 0 ELSE LET i == CHOOSE i \in S : TRUE IN i + SumOf(S \ {i})
SegmentRow(segments, segment_id) ==
    [segment_id |-> segment_id,
     customer_count |-> Cardinality(SegmentOf(segments, segment_id)),
     total_revenue_contribution |-> SumOf(SegmentOf(segments, segment_id)),
     percentage_of_customers |->
         percentage_of_customers(Cardinality(SegmentOf(segments, segment_id)), Len(segments))]
\* sorted(segment_analysis, key=lambda x: x['total_revenue_contribution'],
\* reverse=True): stable, so equal keys stay in the order of np.unique
RECURSIVE SortedByRevenue(_)
SortedByRevenue(rows) ==
    IF rows = {} THEN <<>>
    ELSE LET first == CHOOSE r \in rows : \A o \in rows :
                          \/ o.total_revenue_contribution < r.total_revenue_contribution
                          \/ /\ o.total_revenue_contribution = r.total_revenue_contribution
                             /\ o.segment_id >= r.segment_id IN
         <<first>> \o SortedByRevenue(rows \ {first})
\* (a changed _analyze_segments: the segment of label 0 is left out)
analyze_segments_without_zero(customer_stats, segments) ==
    SortedByRevenue({SegmentRow(segments, id) :
                        id \in {segments[i] : i \in DOMAIN segments} \ {0}})
\* _analyze_segments(customer_stats, segments): one row for each label of
\* np.unique(segments)
analyze_segments(customer_stats, segments) ==
    SortedByRevenue({SegmentRow(segments, id) : id \in {segments[i] : i \in DOMAIN segments}})

CachedClusters == 4
\* n_clusters = min(5, max(3, len(customer_stats) // 10))
n_clusters(customers) ==
    LET tenth == customers \div 10
        atleast == IF tenth > 3 THEN tenth ELSE 3 IN
    IF atleast < 5 THEN atleast ELSE 5
\* The lookup of the Segmenter returns nothing (cached_clusters = 0) or a
\* model fitted on another dataset of the same signature, which has 3 to 5
\* centres; the one tried has CachedClusters.
InitSeg ==
    /\ EngineIdle
    /\ \E customers \in 0..MaxCustomers : \E cached \in {0, CachedClusters} :
          call = [fn |-> "quick_customer_segmentation", pc |-> "stats",
                  customers |-> customers, cached_clusters |-> cached,
                  segments |-> <<>>, segment_analysis |-> <<>>, method |-> "none",
                  cache_hit |-> "none"]
InSegmentation(pc) == call.fn = "quick_customer_segmentation" /\ call.pc = pc
\* if len(customer_stats) < 4: return [], {"method": "insufficient_customers"}
CustomerStats ==
    /\ InSegmentation("stats")
    /\ call' = IF call.customers < MinCustomers
               THEN [call EXCEPT !.pc = "done", !.method = "insufficient_customers"]
               ELSE [call EXCEPT !.pc = "predict"]
    /\ UNCHANGED engine
\* segments = cached_model.predict(X_scaled), or model.fit_predict(X_scaled)
\* with n_clusters centres: every identity gets one of the model's labels;
\* then segment_analysis = self._analyze_segments(customer_stats, segments)
\* and the return
SegmentAndAnalyze(segments) ==
    /\ InSegmentation("predict")
    /\ LET centres == IF call.cached_clusters # 0 THEN call.cached_clusters
                      ELSE n_clusters(call.customers) IN
          \A i \in DOMAIN segments : segments[i] < centres
    /\ call' = [call EXCEPT
                   !.pc = "done",
                   !.segments = segments,
                   !.segment_analysis = analyze_segments(call.customers, segments),
                   !.method = IF call.cached_clusters # 0 THEN "cached_kmeans"
                              ELSE "lightweight_kmeans",
                   !.cache_hit = IF call.cached_clusters # 0 THEN "true" ELSE "false"]
    /\ UNCHANGED engine
\* except Exception as e: return [], {"method": "error", "error": str(e)}
SegmentationRaises ==
    /\ call.fn = "quick_customer_segmentation" /\ call.pc \in {"stats", "predict"}
    /\ call' = [call EXCEPT !.pc = "done", !.method = "error"]
    /\ UNCHANGED engine
NextSeg ==
    \/ CustomerStats
    \/ \E segments \in [1..call.customers -> 0..(CachedClusters - 1)] :
            SegmentAndAnalyze(segments)
    \/ SegmentationRaises
SpecSeg == InitSeg /\ [][NextSeg]_vars

\* ---------------------------------------------------------- properties
IsLookup(t) == th[t].op = "lookup" /\ th[t].pc = "done"
IsStore(t) == th[t].op = "store" /\ th[t].pc = "done"
IsRun(t) == th[t].op \in Kinds /\ th[t].pc = "done"
Hit(t) == th[t].ret.model # 0

\* C1: once a store for a key has returned, a lookup of that key returns
\* exactly the stored model, scaler and metadata, whatever the file held
\* before the store; when the store returns the file is the stored entry.
C1_StoreThenLookup ==
    \A t \in Threads :
        /\ (IsLookup(t) /\ stored[th[t].key] # NoEntry)
              => (~th[t].raised /\ th[t].ret = stored[th[t].key])
        /\ (th[t].pc \in {"done", "finish"} /\ th[t].val # NoEntry)
              => (stored[th[t].key] = th[t].val /\ fs[cache_file(th[t].key)] = File(Pickle(th[t].val)))
C1_Witness ==
    \E t \in Threads :
        IsLookup(t) /\ stored[th[t].key] # NoEntry /\ th[t].ret = stored[th[t].key]

\* C2: a lookup that finds a file it cannot load returns (None, None, None)
\* without raising and leaves the key without a file; a store to that key
\* afterwards puts the entry in place, and the lookup after it returns it.
C2_CorruptIsDropped ==
    \A t \in Threads :
        /\ (IsLookup(t) /\ th[t].corrupt)
              => (~th[t].raised /\ th[t].ret = NoEntry /\ ~fs[cache_file(th[t].key)].exists
                  /\ th[t].key \in dropped)
        /\ (IsStore(t) /\ th[t].key \in dropped)
              => fs[cache_file(th[t].key)] = File(Pickle(th[t].val))
        /\ (IsLookup(t) /\ th[t].key \in dropped /\ stored[th[t].key] # NoEntry)
              => (~th[t].raised /\ th[t].ret = stored[th[t].key])
C2_Witness ==
    \E t \in Threads :
        /\ IsLookup(t) /\ th[t].key \in dropped
        /\ stored[th[t].key] # NoEntry /\ th[t].ret = stored[th[t].key]

\* C3: when every racing store and lookup of a key has returned, the key has
\* a file and it holds the entry of the store that wrote last.
C3_LastWriteWins ==
    \A k \in Keys :
        (stored[k] # NoEntry /\ \A t \in Threads : th[t].key = k => th[t].pc = "done")
            => fs[cache_file(k)] = File(Pickle(stored[k]))

\* C4: a lookup never reads a file that a store racing on the same key has
\* written only in part.
C4_NoTornRead == \A t \in Threads : ~th[t].torn

\* C5: a lookup never raises, also when other lookups of the same unloadable
\* file run at the same time.
C5_LookupNeverRaises == \A t \in Threads : th[t].op = "lookup" => ~th[t].raised

\* C6: whatever step fails, a task returns a result list and metadata with a
\* method tag; the error does not leave the task.
MethodTags ==
    [revenue |-> {"cached_model", "simple_average", "lightweight_training", "fallback"},
     anomaly |-> {"insufficient_data", "cached_isolation_forest",
                  "lightweight_isolation_forest", "error"},
     customer |-> {"insufficient_customers", "cached_kmeans", "lightweight_kmeans",
                   "error"}]
C6_TaskNeverAborts ==
    \A t \in Threads :
        (th[t].op \in Kinds /\ (th[t].raised \/ th[t].pc = "done"))
            => /\ th[t].pc = "done"
               /\ th[t].method \in MethodTags[th[t].op]
               /\ th[t].op = "revenue" => th[t].source \in {"simple", "constant", "model"}
C6_Witness ==
    \E t \in Threads :
        th[t].op = "revenue" /\ th[t].raised /\ th[t].pc = "done" /\ th[t].method = "fallback"

\* C7: a task whose lookup is a hit returns metadata with cache_hit = true
\* and fits no model.
C7_HitIsTagged ==
    \A t \in Threads : (IsRun(t) /\ Hit(t)) => (th[t].cache_hit = "true" /\ ~th[t].trained)

\* C8: on a hit the Forecaster's points are predictions of the cached model.
C8_HitPredictsWithCachedModel ==
    \A t \in Threads :
        (IsRun(t) /\ th[t].op = "revenue" /\ Hit(t))
            => (th[t].source = "model" /\ th[t].predictor = th[t].ret.model)

\* C9: a task whose lookup misses on a dataset with at least the task's
\* minimum of samples (7 days, 5 days, 4 customers) fits a model, stores it
\* and returns cache_hit = false, and the key holds the entry on return.
MinSamples(t) ==
    CASE th[t].op = "revenue" -> th[t].data.days >= MinForecastDays
      [] th[t].op = "anomaly" -> th[t].data.days >= MinAnomalyDays
      [] OTHER -> th[t].data.customers >= MinCustomers
TrainedAndStored(t) ==
    /\ th[t].trained /\ th[t].cache_hit = "false"
    /\ th[t].val = TrainedEntry(th[t].op, th[t].data)
    /\ fs[cache_file(th[t].key)] = File(Pickle(th[t].val))
C9_MissTrainsAndStores ==
    \A t \in Threads : (IsRun(t) /\ ~Hit(t) /\ MinSamples(t)) => TrainedAndStored(t)
\* C9 as amended: the Forecaster needs MinFeatureRows feature rows after the
\* Lookback, that is 8 days; with 7 it returns the simple fallback with
\* reason insufficient_features and fits nothing.
C9_MissTrainsAndStoresAmended ==
    \A t \in Threads :
        /\ (IsRun(t) /\ ~Hit(t) /\ Trains(th[t].op, th[t].data)) => TrainedAndStored(t)
        /\ (IsRun(t) /\ ~Hit(t) /\ MinSamples(t) /\ ~Trains(th[t].op, th[t].data))
              => /\ th[t].reason = "insufficient_features" /\ th[t].source = "simple"
                 /\ ~th[t].trained /\ ~fs[cache_file(th[t].key)].exists
C9_Witness ==
    \E t \in Threads : IsRun(t) /\ ~Hit(t) /\ th[t].op = "revenue" /\ TrainedAndStored(t)

\* C10: on a dataset with fewer than 5 distinct days the Forecaster returns
\* the simple fallback with reason insufficient_data and fits no model,
\* whatever the cache holds.
C10_FewDaysIsInsufficient ==
    \A t \in Threads :
        (IsRun(t) /\ th[t].op = "revenue" /\ th[t].data.days < 5)
            => (th[t].source = "simple" /\ th[t].reason = "insufficient_data"
                /\ ~th[t].trained)
\* C10 as amended: the simple fallback and no fit in every case; the reason
\* insufficient_data when the lookup misses, and the metadata of a hit
\* (method cached_model, cache_hit = true, no reason) when the key holds an
\* entry of another dataset with the same signature.
C10_FewDaysIsInsufficientAmended ==
    \A t \in Threads :
        (IsRun(t) /\ th[t].op = "revenue" /\ th[t].data.days < 5)
            => /\ th[t].source = "simple" /\ ~th[t].trained
               /\ ~Hit(t) => (th[t].method = "simple_average"
                              /\ th[t].reason = "insufficient_data")
               /\ Hit(t) => (th[t].method = "cached_model" /\ th[t].cache_hit = "true"
                             /\ th[t].reason = "none")
C10_Witness ==
    \E t \in Threads :
        /\ IsRun(t) /\ th[t].op = "revenue" /\ th[t].data.days < 5
        /\ ~Hit(t) /\ th[t].reason = "insufficient_data"

\* C11: map_headers gives every header at most one field: the internal field
\* of the first field mapping, in registration order, one of whose aliases
\* matches it ("amount" gets total_amount, "Net Amount" gets net_amount); a
\* header that matches no field mapping is in unmapped_headers and not in the
\* mapping; what a header gets is what it gets when it is mapped alone.
Matching(h) ==
    {j \in 1..Len(field_mappings) : find_best_match(h, field_mappings[j].csv_headers)}
Least(S) == CHOOSE j \in S : \A k \in S : j <= k
MappedAs(h, mapping, unmapped) ==
    IF Matching(h) = {}
    THEN h \notin DOMAIN mapping /\ InSeq(h, unmapped)
    ELSE /\ h \in DOMAIN mapping /\ ~InSeq(h, unmapped)
         /\ mapping[h] = field_mappings[Least(Matching(h))].internal_field
C11_FirstRegisteredFieldWins ==
    (call.fn = "map_headers" /\ call.pc = "done") =>
        \A i \in 1..Len(call.csv_headers) :
            LET h == call.csv_headers[i]
                alone == map_headers(<<h>>) IN
            /\ MappedAs(h, call.mapping, call.unmapped_headers)
            /\ h \in DOMAIN call.mapping <=> h \in DOMAIN alone.mapping
            /\ h \in DOMAIN call.mapping => call.mapping[h] = alone.mapping[h]
            /\ h = <<"amount">> => call.mapping[h] = <<"total", "_", "amount">>
            /\ h = <<"Net", " ", "Amount">> => call.mapping[h] = <<"net", "_", "amount">>
C11_Witness ==
    /\ call.fn = "map_headers" /\ call.pc = "done"
    /\ Len(call.csv_headers) = 2
    /\ call.csv_headers[1] = <<"Net", " ", "Amount">>
    /\ call.mapping[call.csv_headers[1]] = <<"net", "_", "amount">>
    /\ InSeq(call.csv_headers[2], call.unmapped_headers)

Lines(s) == split(s, "\n")
\* The rows of a text: a line feed at the very end closes the last row.
Rows(s) ==
    IF s = <<>> THEN <<>>
    ELSE IF s[Len(s)] = "\n" THEN Lines(SubSeq(s, 1, Len(s) - 1)) ELSE Lines(s)
FixDone == call.fn = "fix_malformed_csv" /\ call.pc = "done"

\* C17: the text fix_malformed_csv returns has the header row of its input,
\* unchanged, and at least as many rows as its input.
C17_HeaderAndRowsKept ==
    FixDone =>
        /\ Lines(call.fixed_content)[1] = Lines(call.file_content)[1]
        /\ Len(Rows(call.fixed_content)) >= Len(Rows(call.file_content))
\* C17 as amended: the text is stripped of the whitespace before its first
\* and after its last row before it is split.  A text of fewer than two
\* lines then is returned as it came; otherwise the result has the first line
\* of the stripped text as its header row and exactly as many lines as the
\* stripped text.
C17_HeaderAndRowsKeptAmended ==
    FixDone =>
        LET stripped == Lines(strip(call.file_content)) IN
        IF Len(stripped) < 2
        THEN call.fixed_content = call.file_content
        ELSE /\ Lines(call.fixed_content)[1] = stripped[1]
             /\ Len(Lines(call.fixed_content)) = Len(stripped)
C17_Witness ==
    /\ FixDone
    /\ call.file_content # <<>> /\ Head(call.file_content) = " "
    /\ call.fixed_content # strip(call.file_content)
    /\ Len(Lines(call.fixed_content)) = 3

CsvFieldCount(line) == Len(csv_fields(line))

\* C18: a data row with more comma-separated fields than the header row is
\* returned as its first expected_cols - 1 fields followed by one field, the
\* remaining fields joined by commas (without the whitespace around them) and
\* wrapped in double quotes unless they start and end with one already, and
\* read as a CSV line it has exactly expected_cols fields; every other row is
\* returned as it is.
C18_OverflowMergedIntoLastField ==
    (FixDone /\ Len(Lines(strip(call.file_content))) >= 2) =>
        LET lines == Lines(strip(call.file_content))
            fixed == Lines(call.fixed_content)
            expected_cols == Len(split(lines[1], ",")) IN
        \A i \in 2..Len(lines) :
            LET columns == split(lines[i], ",")
                merged == strip(join(",", SubSeq(columns, expected_cols, Len(columns))))
                last == IF Head(merged) = Quote /\ merged[Len(merged)] = Quote
                        THEN merged ELSE <<Quote>> \o merged \o <<Quote>> IN
            IF Len(columns) > expected_cols
            THEN /\ fixed[i] = join(",", Append(SubSeq(columns, 1, expected_cols - 1), last))
                 /\ CsvFieldCount(fixed[i]) = expected_cols
            ELSE fixed[i] = lines[i]

\* the columns generate_missing_fields was called with and returned
Generated == InProcess("validate")
RowIndex(i) == ToString(i - 1)
\* C12: generate_missing_fields leaves every column it was given as it was,
\* in its place; it adds customer_id exactly when that column is absent and
\* customer_email is present, as the email written as a string; it adds
\* order_id exactly when that column is absent: with a date column as the
\* date (the raw date string of the upload when a date of some row did not
\* parse), "_" and the zero-based row index, without one as "ORDER_" and the
\* row index.
C12_GenerateNeverOverwrites ==
    Generated =>
        LET b == call.before
            a == call.df_mapped
            kept == Len(b.columns)
            adds_customer == ~HasColumn(b, customer_id) /\ HasColumn(b, customer_email)
            adds_order == ~HasColumn(b, order_id)
            added == (IF adds_customer THEN {customer_id} ELSE {})
                     \cup (IF adds_order THEN {order_id} ELSE {})
            raw_date == CHOOSE h \in DOMAIN call.mapping : call.mapping[h] = date IN
        /\ Len(a.columns) = kept + Cardinality(added)
        /\ \A i \in 1..kept : a.columns[i] = b.columns[i] /\ a.data[i] = b.data[i]
        /\ {a.columns[i] : i \in (kept + 1)..Len(a.columns)} = added
        /\ adds_customer =>
              \A i \in 1..a.n :
                  Series(a, customer_id)[i] = Str(AsStr(Series(b, customer_email)[i]))
        /\ adds_order =>
              \A i \in 1..a.n :
                  Series(a, order_id)[i] =
                      IF ~HasColumn(b, date)
                      THEN Str(<<"ORDER", "_", RowIndex(i)>>)
                      ELSE IF \E k \in 1..a.n : isna(Series(b, date)[k])
                      THEN Str(AsStr(Series(call.df, raw_date)[i]) \o <<"_", RowIndex(i)>>)
                      ELSE Str(AsStr(Series(b, date)[i]) \o <<"_", RowIndex(i)>>)
C12_Witness ==
    /\ Generated
    /\ call.df_mapped.n = 1
    /\ HasColumn(call.before, order_id)
    /\ Series(call.df_mapped, order_id) = Series(call.before, order_id)
    /\ ~HasColumn(call.before, customer_id) /\ HasColumn(call.before, customer_email)
    /\ Series(call.df_mapped, customer_id) = Series(call.before, customer_email)

ProcessReturned == InProcess("done")
\* process returned for an upload with the headers amount, product, email
\* and at least one row
ScenarioB ==
    /\ ProcessReturned
    /\ call.df.columns = << <<"amount">>, <<"product">>, <<"email">> >>
    /\ call.df.n >= 1
SynthesizedIds ==
    /\ HasColumn(call.df_mapped, customer_id)
    /\ \A i \in 1..call.df.n :
          Series(call.df_mapped, customer_id)[i] = Str(AsStr(Series(call.df, <<"email">>)[i]))
    /\ HasColumn(call.df_mapped, order_id)
    /\ \A i \in 1..call.df.n :
          Series(call.df_mapped, order_id)[i] = Str(<<"ORDER", "_", RowIndex(i)>>)
\* C13: for the headers amount, product, email process writes customer_id
\* from the email column and order_id as "ORDER_" and the row index, and the
\* validation of the required fields passes: no field is missing and
\* mapping_success is true.
C13_ScenarioB ==
    ScenarioB =>
        /\ SynthesizedIds
        /\ call.metadata.missing_required_fields = <<>>
        /\ call.metadata.mapping_success
\* C13 as amended: customer_id and order_id are synthesized as stated, and
\* the validation reports the one required field that cannot be synthesized:
\* missing_required_fields is [date] and mapping_success is false.
C13_ScenarioBAmended ==
    ScenarioB =>
        /\ SynthesizedIds
        /\ call.metadata.missing_required_fields = <<date>>
        /\ ~call.metadata.mapping_success
C13_Witness ==
    /\ ScenarioB
    /\ Series(call.df_mapped, order_id)[1] = Str(<<"ORDER", "_", "0">>)
    /\ Series(call.df_mapped, customer_id)[1] = Str(<<"abc">>)
    /\ ~HasColumn(call.df_mapped, date)

\* process was called on the five headers Customer ID, Order ID, Date,
\* Product Name, Total Amount and one valid row, and has ended
ScenarioA ==
    /\ call.fn = "process_csv" /\ call.pc \in {"done", "raised"}
    /\ call.file_content = Upload(<<1, 2, 3, 4, 5>>, <<"valid">>)
CanonicalFields == <<customer_id, order_id, date, product_name, total_amount>>
DisplayName(field) ==
    LET k == CHOOSE k \in 1..Len(compatibility_aliases) :
                 compatibility_aliases[k].new = field IN
    compatibility_aliases[k].old
ExposesCanonicalFields ==
    /\ call.pc = "done"
    /\ call.metadata.mapping_success
    /\ call.metadata.unmapped_headers = <<>>
    /\ call.df_mapped.n = 1
    /\ \A k \in 1..Len(CanonicalFields) :
          /\ HasColumn(call.df_mapped, CanonicalFields[k])
          /\ IsSeries(call.df_mapped, CanonicalFields[k])
\* C14: for the headers Customer ID, Order ID, Date, Product Name, Total
\* Amount and one valid row process returns mapping_success true, no unmapped
\* header and a dataset of one row that has the five canonical fields, each
\* coerced to its declared type: date is a datetime, total_amount a number.
C14_ScenarioA ==
    ScenarioA =>
        /\ ExposesCanonicalFields
        /\ Series(call.df_mapped, date)[1].t = "datetime"
        /\ Series(call.df_mapped, total_amount)[1].t = "float"
\* C14 as amended: the five canonical fields are copies of the columns with
\* the display names as the text was read, without coercion: date is the
\* date string of the upload, and total_amount is a number because the
\* column was read as numbers.
C14_ScenarioAAmended ==
    ScenarioA =>
        /\ ExposesCanonicalFields
        /\ \A k \in 1..Len(CanonicalFields) :
              Series(call.df_mapped, CanonicalFields[k])
                  = Series(call.df, DisplayName(CanonicalFields[k]))
        /\ Series(call.df_mapped, date)[1] = Str(<<RawDate>>)
        /\ Series(call.df_mapped, total_amount)[1].t = "float"
C14_Witness ==
    /\ ScenarioA /\ call.pc = "done"
    /\ call.metadata.csv_type = "stan"
    /\ Series(call.df_mapped, date)[1].t = "str"
    /\ Series(call.df_mapped, total_amount)[1] = Float(<<"25.99">>)

\* C15: process raises only when read_csv raises on the repaired text; on
\* every text that reads as a table (also when two headers map to the same
\* field, when required fields are missing, when values do not convert) it
\* returns a dataset and the metadata.
C15_RaisesOnlyWhenParsingFails ==
    (call.fn = "process_csv" /\ call.pc \in {"done", "raised"}) =>
        IF read_csv(call.fixed_content).ok
        THEN call.pc = "done" /\ call.metadata # NoMetadata
        ELSE call.pc = "raised" /\ call.raised_in = "read_csv"

\* the required fields that are no column of the dataset process returned
AbsentRequired ==
    {CanonicalFields[k] : k \in {k \in 1..Len(CanonicalFields) :
                                    ~HasColumn(call.df_mapped, CanonicalFields[k])}}
\* C16: in the metadata process returns mapping_success is true exactly when
\* customer_id, order_id, date, product_name and total_amount all are columns
\* of the returned dataset, and when it is false missing_required_fields
\* lists the absent ones, each once, and nothing else.
C16_SuccessIffRequiredPresent ==
    ProcessReturned =>
        LET missing == call.metadata.missing_required_fields IN
        /\ call.metadata.mapping_success <=> (AbsentRequired = {})
        /\ ~call.metadata.mapping_success =>
              /\ {missing[i] : i \in 1..Len(missing)} = AbsentRequired
              /\ Len(missing) = Cardinality(AbsentRequired)
C16_Witness ==
    /\ ProcessReturned
    /\ ~call.metadata.mapping_success
    /\ call.metadata.missing_required_fields = <<date, total_amount>>
    /\ HasColumn(call.df_mapped, customer_id) /\ ~HasColumn(call.before, customer_id)
    /\ HasColumn(call.df_mapped, order_id) /\ ~HasColumn(call.before, order_id)

\* process has ended on a table whose headers contain the five display names
LegacyHeaders ==
    /\ call.fn = "process_csv" /\ call.pc \in {"done", "raised"}
    /\ \A k \in 1..Len(old_format_fields) : InSeq(old_format_fields[k], call.df.columns)
\* The report and the dataset of the short-circuit: every header is mapped to
\* itself, nothing is unmapped or missing, success is true; map_headers was
\* not called, no value was converted, and the only columns added are copies
\* of display-name columns under their canonical names.
ShortCircuited ==
    LET headers == call.df.columns
        out == call.df_mapped IN
    /\ call.pc = "done"
    /\ call.metadata.original_headers = headers
    /\ DOMAIN call.metadata.mapped_headers = {headers[i] : i \in 1..Len(headers)}
    /\ \A h \in DOMAIN call.metadata.mapped_headers : call.metadata.mapped_headers[h] = h
    /\ call.metadata.unmapped_headers = <<>>
    /\ call.metadata.missing_required_fields = <<>>
    /\ call.metadata.mapping_success
    /\ call.mapping = EmptyDict /\ call.unmapped_headers = <<>>
    /\ out.n = call.df.n
    /\ \A i \in 1..Len(headers) : out.columns[i] = headers[i] /\ out.data[i] = call.df.data[i]
    /\ \A i \in (Len(headers) + 1)..Len(out.columns) :
          \E k \in 1..Len(compatibility_aliases) :
              /\ out.columns[i] = compatibility_aliases[k].new
              /\ HasColumn(call.df, compatibility_aliases[k].old)
              /\ out.data[i] = Series(call.df, compatibility_aliases[k].old)
\* C20: when the headers contain Total Amount, Date, Product Name, Customer
\* ID and Order ID process takes the short-circuit, and neither alias
\* matching nor field synthesis nor the repair of rows is applied: the table
\* is read from the text as it was uploaded.
C20_LegacyShortCircuit ==
    LegacyHeaders =>
        /\ ShortCircuited
        /\ call.fixed_content = call.file_content
\* C20 as amended: the short-circuit skips alias matching, conversion and
\* synthesis, but the repair of rows has run before the headers are looked
\* at: the table is read from the repaired text.
C20_LegacyShortCircuitAmended ==
    LegacyHeaders =>
        /\ ShortCircuited
        /\ call.fixed_content = fix_malformed_csv(call.file_content)
        /\ call.df = clean_columns(read_csv(call.fixed_content).df)
C20_Witness ==
    /\ LegacyHeaders /\ call.pc = "done"
    /\ call.fixed_content # call.file_content
    /\ InSeq(<<"Billing", " ", "Address">>, call.df.columns)
    /\ call.df.n = 1
    /\ Len(call.df_mapped.columns) > Len(call.df.columns)

\* The five components of a dataset: the number of rows, the first and the
\* last date, the sum of the amounts, the product names, and the number of
\* customer emails.
RECURSIVE TotalAmount(_, _)
TotalAmount(df, i) == IF i > Len(df) THEN 0 ELSE df[i].TotalAmount + TotalAmount(df, i + 1)
Components(df) ==
    <<Len(df), DateMin(df), DateMax(df), TotalAmount(df, 1),
      {df[i].ProductName : i \in 1..Len(df)},
      Cardinality({df[i].CustomerEmail : i \in 1..Len(df)})>>
\* C19: two datasets have the same signature exactly when they agree on the
\* row count, the first and last date, the sum of the amounts, the set of
\* product names and the number of distinct customer emails; so a dataset
\* and any permutation of its rows have the same signature.
C19_SignatureOfFiveComponents ==
    InSignature("done") =>
        (call.signature = call.other_signature
            <=> Components(call.df) = Components(call.other))

MappedFields == {call.mapping[h] : h \in DOMAIN call.mapping}
TypeDone == call.fn = "detect_csv_type" /\ call.pc = "done"
\* C21: detect_csv_type returns stripe, stan or unknown, decided by the set
\* of fields the mapping maps to alone: stripe when amount_refunded and fee
\* both are mapped (also when product_name and total_amount are), otherwise
\* stan when product_name and total_amount both are mapped, otherwise unknown.
C21_TypeBySetOfFields ==
    TypeDone =>
        /\ call.csv_type \in {"stripe", "stan", "unknown"}
        /\ call.csv_type = "stripe"
              <=> {<<"amount", "_", "refunded">>, <<"fee">>} \subseteq MappedFields
        /\ call.csv_type = "stan"
              <=> /\ ~({<<"amount", "_", "refunded">>, <<"fee">>} \subseteq MappedFields)
                  /\ {product_name, total_amount} \subseteq MappedFields
C21_Witness ==
    /\ TypeDone
    /\ MappedFields = {<<"amount", "_", "refunded">>, <<"fee">>, product_name, total_amount}
    /\ call.csv_type = "stripe"

\* call.before is the dataset transform_dataframe has returned: the renamed
\* columns after the conversion loop, and their display-name copies.
Transformed == call.fn = "process_csv" /\ call.before # NoFrame
CellTypes(df) == {df.data[j][i].t : j \in 1..Len(df.data), i \in 1..df.n}
\* C24: the type conversion of transform_dataframe is idempotent: run on a
\* dataset it has already converted, it returns that dataset unchanged.
C24_CoercionIdempotent ==
    Transformed => convert_types(call.before, 1) = call.before
C24_Witness ==
    /\ Transformed
    /\ "datetime" \notin CellTypes(call.df)
    /\ {"datetime", "float"} \subseteq CellTypes(call.before)
    /\ convert_types(call.before, 1) = call.before

\* the fields the headers of the upload were mapped to
MappedTo == {call.mapping[h] : h \in DOMAIN call.mapping}
\* process has returned and the headers did not contain the five display
\* names, so the dataset went through map, transform and generate
GenericReturned ==
    /\ ProcessReturned
    /\ \E k \in 1..Len(old_format_fields) : ~InSeq(old_format_fields[k], call.df.columns)
MissingRequired ==
    {call.metadata.missing_required_fields[i] :
        i \in 1..Len(call.metadata.missing_required_fields)}
\* C30: on the generic path order_id always is a column of the returned
\* dataset and never is reported missing; customer_id is reported missing
\* exactly when no header maps to customer_id and none to customer_email;
\* date, product_name and total_amount are never synthesized, and each is
\* reported missing exactly when no header maps to it.
C30_OnlyIdsAreSynthesized ==
    GenericReturned =>
        /\ HasColumn(call.df_mapped, order_id)
        /\ order_id \notin MissingRequired
        /\ customer_id \in MissingRequired
              <=> (customer_id \notin MappedTo /\ customer_email \notin MappedTo)
        /\ \A f \in {date, product_name, total_amount} :
              /\ HasColumn(call.df_mapped, f) <=> f \in MappedTo
              /\ f \in MissingRequired <=> f \notin MappedTo
C30_Witness ==
    /\ GenericReturned
    /\ MappedTo = {customer_email, total_amount}
    /\ MissingRequired = {date, product_name}
    /\ ~HasColumn(call.before, order_id) /\ HasColumn(call.df_mapped, order_id)
    /\ ~HasColumn(call.before, customer_id) /\ HasColumn(call.df_mapped, customer_id)

\* C25: when the report of the primary upload has mapping_success false the
\* request is rejected before calculate_analytics is called: neither it nor
\* any of the three tasks runs, and no response is sent.
C25_RejectedBeforeAnalytics ==
    (call.fn = "process_csv" /\ "request" \in DOMAIN call /\ call.pc = "done"
        /\ ~call.metadata.mapping_success)
    => /\ call.request \in {"parse", "rejected"}
       /\ ~call.analytics
       /\ call.tasks = <<>>
       /\ call.status \in {0, 500}
C25_Witness ==
    /\ InRequest("rejected")
    /\ call.pc = "done" /\ ~call.metadata.mapping_success
    /\ call.metadata.missing_required_fields = <<date>>
    /\ call.status = 500 /\ ~call.analytics /\ call.tasks = <<>>

\* The methods of the metadata by what they report.  A run has written to
\* the cache when its _cache_model has opened the file (off counts from 1).
TrainedMethods ==
    {"lightweight_training", "lightweight_isolation_forest", "lightweight_kmeans"}
InsufficientMethods == {"simple_average", "insufficient_data", "insufficient_customers"}
HitMethods == {"cached_model", "cached_isolation_forest", "cached_kmeans"}
FailureMethods == {"fallback", "error"}
Wrote(t) == th[t].off > 0
\* C26: a task run whose metadata reports a fallback, insufficient-data or
\* error method has not written to the model cache; the cache is written
\* only by runs that return a trained result with cache_hit = false.
C26_OnlyTrainedRunsWrite ==
    \A t \in Threads :
        IsRun(t) =>
            /\ th[t].method \in (InsufficientMethods \cup FailureMethods) => ~Wrote(t)
            /\ Wrote(t) => (th[t].method \in TrainedMethods /\ th[t].cache_hit = "false")
\* C26 as amended: a run that reports insufficient data or a hit has not
\* written to the cache.  Every run that has written has fitted a model on a
\* miss, on a dataset large enough for the task, and has handed that model
\* to _cache_model; it reports a trained result with cache_hit = false, or,
\* when a step after _cache_model has raised, fallback or error.
C26_OnlyTrainedRunsWriteAmended ==
    \A t \in Threads :
        IsRun(t) =>
            /\ th[t].method \in (InsufficientMethods \cup HitMethods) => ~Wrote(t)
            /\ Wrote(t) =>
                  /\ ~Hit(t) /\ th[t].trained /\ Trains(th[t].op, th[t].data)
                  /\ th[t].val = TrainedEntry(th[t].op, th[t].data)
                  /\ th[t].method \in (TrainedMethods \cup FailureMethods)
                  /\ th[t].method \in TrainedMethods => th[t].cache_hit = "false"
C26_Witness ==
    \E t \in Threads :
        /\ IsRun(t) /\ th[t].method = "error" /\ Wrote(t)
        /\ fs[cache_file(th[t].key)] = File(Pickle(TrainedEntry(th[t].op, th[t].data)))

Loadable(f) == f.exists /\ CanLoad(f.data)
\* a step of a task run of t
RunStep(t) == th[t].op \in Kinds /\ th[t].pc # "done" /\ th'[t].op = th[t].op
\* C27: in sequential execution no step of a task run overwrites or removes
\* an entry that is present and loadable, and a run on a dataset with the
\* task's minimum of samples that returns while its key holds an entry it
\* has not written itself is a hit: it returns cache_hit = true with that
\* entry, has fitted no model and has stored nothing.
C27_EntryIsKept ==
    \A t \in Threads :
        RunStep(t) =>
            /\ \A k \in Keys : Loadable(fs[cache_file(k)]) => fs'[cache_file(k)] = fs[cache_file(k)]
            /\ (th'[t].pc = "done" /\ MinSamples(t) /\ ~Wrote(t) /\ Loadable(fs[cache_file(th[t].key)]))
                  => /\ th'[t].cache_hit = "true"
                     /\ th'[t].ret = LookupResult(Unpickle(fs[cache_file(th[t].key)].data))
                     /\ ~th'[t].trained /\ th'[t].val = NoEntry
                     /\ stored' = stored
C27_SequentialHitAfterStore == [][C27_EntryIsKept]_vars
C27_Witness ==
    \E t \in Threads :
        /\ IsRun(t) /\ Hit(t) /\ MinSamples(t) /\ ~th[t].trained /\ ~Wrote(t)
        /\ stored[th[t].key] = th[t].ret
        /\ th[t].ret.model # FitModel(th[t].op, th[t].data)
        /\ fs[cache_file(th[t].key)] = File(Pickle(stored[th[t].key]))

\* the entry the cache holds under key k: the file of that key's name
EntryOf(k) == fs[cache_file(k)]
\* t takes a step of a store, a lookup or a corruption drop on key k
CacheStepOn(t, k) ==
    th[t].key = k /\ th[t].pc \in {"exists", "load", "remove", "open", "write"}
        /\ th'[t] # th[t]
\* C28: the entries are isolated per key: a step of a store, a lookup or a
\* corruption drop on a key changes the entry of no other key, so an entry
\* changes only in a step of an operation on its own key.
C28_StepChangesOwnKeyOnly ==
    \A k \in Keys :
        EntryOf(k)' # EntryOf(k) => \E t \in Threads : CacheStepOn(t, k)
C28_KeysAreIsolated == [][C28_StepChangesOwnKeyOnly]_vars
C28_Witness ==
    \E k1, k2 \in Keys :
        /\ k1[1] = k2[1] /\ k1[2] # k2[2]
        /\ stored[k2] # NoEntry /\ k1 \in dropped
        /\ EntryOf(k2) = File(Pickle(stored[k2]))
        /\ ~EntryOf(k1).exists
        /\ \A t \in Threads : th[t].pc = "done"

ForecastDone == InForecast("done")
\* how the Forecaster came to its points
Outcome ==
    CASE call.method = "cached_model" -> "cache hit"
      [] call.method = "lightweight_training" -> "freshly trained"
      [] call.method = "fallback" -> "failure fallback"
      [] call.reason = "insufficient_data" -> "insufficient data"
      [] OTHER -> "insufficient features"
\* C29: quick_revenue_forecast called with periods = N returns exactly N
\* forecast points in every outcome: cache hit, insufficient data,
\* insufficient features, freshly trained, failure fallback and the constant
\* fallback of _simple_forecast.
C29_ExactlyPeriodsPoints ==
    ForecastDone => Len(call.forecasts) = call.periods
C29_Witness ==
    /\ ForecastDone /\ Outcome = "failure fallback"
    /\ call.periods = MaxPeriods /\ Len(call.forecasts) = MaxPeriods
    /\ call.daily = <<>>
    /\ call.forecasts[1].predicted_revenue = Frac(100, 1)

\* The recent daily values the i-th point is predicted from: the last
\* ForecastWindow of the daily sums followed by the points predicted before it
RecentValues(i) ==
    LastOf(call.daily \o [k \in 1..(i - 1) |-> call.forecasts[k].predicted_revenue],
           ForecastWindow)
WithinBounds(x, mean) ==
    AtMost(Times(mean, Frac(1, 2)), x) /\ AtMost(x, Times(mean, Frac(5, 2)))
\* C22: every point of a forecast, freshly trained or from a cache hit, lies
\* between 0.5 times and 2.5 times the mean of the recent daily values it is
\* predicted from, the window taking up each earlier prediction.
C22_ForecastWithinBounds ==
    (ForecastDone /\ call.method \in {"lightweight_training", "cached_model"}
        /\ call.daily # <<>>)
    => \A i \in 1..Len(call.forecasts) :
          WithinBounds(call.forecasts[i].predicted_revenue, Mean(RecentValues(i)))

SegmentationDone == InSegmentation("done")
SegmentRows == call.segment_analysis
RECURSIVE CountSum(_)
CountSum(rows) == IF rows = <<>> THEN 0 ELSE Head(rows).customer_count + CountSum(Tail(rows))
PercentageSum ==
    FloatSum([i \in 1..Len(SegmentRows) |-> SegmentRows[i].percentage_of_customers], Frac(0, 1))
\* every identity is counted in exactly one row
CountedOnce ==
    /\ \A i \in 1..call.customers :
          Cardinality({k \in 1..Len(SegmentRows) : SegmentRows[k].segment_id = call.segments[i]}) = 1
    /\ \A k \in 1..Len(SegmentRows) :
          SegmentRows[k].customer_count = Cardinality(SegmentOf(call.segments, SegmentRows[k].segment_id))
    /\ CountSum(SegmentRows) = call.customers
\* C23: the Segmenter returns no more segments than there are identities,
\* every identity is counted in exactly one returned segment, so that the
\* counts sum to the number of identities, and the percentages sum to 100;
\* with fewer than 4 identities it returns the empty list.
C23_SegmentsPartition ==
    SegmentationDone =>
        IF call.customers < MinCustomers THEN SegmentRows = <<>>
        ELSE /\ Len(SegmentRows) <= call.customers
             /\ CountSum(SegmentRows) = call.customers
             /\ PercentageSum = Frac(100, 1)
\* the distance of the sum of the percentages from 100 is at most units
\* times 100 * 2^-PercentBits, the rounding error of one operation on 100
WithinRounding(units) ==
    LET diff == Plus(PercentageSum, Frac(-100, 1))
        abs == IF diff.n < 0 THEN Frac(0 - diff.n, diff.d) ELSE diff IN
    AtMost(abs, Frac(100 * units, 2 ^ PercentBits))
\* C23 as amended: with fewer than 4 identities, and when a step raises
\* (method error), the list is empty.  Otherwise there is at least one
\* segment and no more segments than identities, every identity is counted
\* in exactly one segment, the counts sum to the number of identities, and
\* the percentages sum to 100 up to the rounding of the floating-point
\* operations (two for each percentage and one for each addition).
C23_SegmentsPartitionAmended ==
    SegmentationDone =>
        IF call.customers < MinCustomers \/ call.method = "error" THEN SegmentRows = <<>>
        ELSE /\ call.method \in {"lightweight_kmeans", "cached_kmeans"}
             /\ Len(SegmentRows) >= 1 /\ Len(SegmentRows) <= call.customers
             /\ CountedOnce
             /\ WithinRounding(3 * Len(SegmentRows))
C23_Witness ==
    /\ SegmentationDone /\ call.method = "cached_kmeans"
    /\ Len(SegmentRows) = 2 /\ CountedOnce
    /\ PercentageSum # Frac(100, 1) /\ WithinRounding(3 * Len(SegmentRows))
====
